---- MODULE Spec2Model ----
(***************************************************************************)
(* The client-side routing engine of src/frontend/errors.js: the graph     *)
(* store (loadGraph), the nearest-node scan (findNearestNode), the binary  *)
(* heap Dijkstra search (MinHeap, dijkstra), the path reconstructor        *)
(* (pathToGeoJSON), the route comparator (computeRouteStats) and the query *)
(* entry point (calculateRoute).                                           *)
(*                                                                         *)
(* Number representation.  The code computes in IEEE doubles; the model    *)
(* computes in exact integers:                                             *)
(*   - edge lengths and accessibility costs are integers;                  *)
(*   - a barrier weight is given in thousandths (bw = 0.01 is 10);         *)
(*   - Math.pow(accCost, 1.5) is given in hundredths (see Math_pow15);     *)
(*   - an edge weight and a tentative distance are therefore in units of   *)
(*     1/100000 metre;                                                     *)
(*   - latitudes and longitudes are integer degrees and cosLat is in       *)
(*     hundredths (see Math_cos).                                          *)
(* JavaScript's null is the empty tuple and a non-null value x is <<x>>    *)
(* (see Null, Some, Val), so that an empty table {} differs from null.     *)
(***************************************************************************)
EXTENDS Integers, Sequences, FiniteSets, TLC

\* ------------------------------------------------------------------------
\* Values
\* ------------------------------------------------------------------------

Null == <<>>

Some(x) == <<x>>

Val(o) == o[1]

\* a JS array index i (0-based) is the sequence index i + 1
Swap(d, i, j) == [d EXCEPT ![i] = d[j], ![j] = d[i]]

Range(s) == {s[i] : i \in DOMAIN s}

\* the threshold 0.01 of the edge weight, in thousandths
BwThreshold == 10

\* Math.pow(accCost, 1.5) in hundredths; exact on the perfect squares,
\* rounded to two decimals otherwise (5^1.5 = 11.1803...)
Math_pow15(accCost) ==
    CASE accCost = 0 -> 0
      [] accCost = 1 -> 100
      [] accCost = 4 -> 800
      [] accCost = 5 -> 1118
      [] accCost = 9 -> 2700
      [] accCost = 16 -> 6400

\* Math.cos(deg * Math.PI / 180) in hundredths, for the mean latitudes of
\* the node tables below
Math_cos(deg) ==
    CASE deg = 0 -> 100
      [] deg = 15 -> 97
      [] deg = 20 -> 94
      [] deg = 30 -> 87
      [] deg = 40 -> 77
      [] deg = 45 -> 71
      [] deg = 60 -> 50
      [] deg = 61 -> 48
      [] deg = 62 -> 47

\* NaN, the value of Math.cos(0 / 0 * ...); the cosine of no latitude is negative
NaN == 0 - 1

\* ------------------------------------------------------------------------
\* MinHeap (errors.js 27-75): data is a sequence of <<priority, value>>
\* ------------------------------------------------------------------------

\* mutant of MinHeap_bubbleUp: the entry also moves up past an equal parent
RECURSIVE MinHeap_bubbleUp_pastEqual(_, _)
MinHeap_bubbleUp_pastEqual(d, i) ==
    IF i > 1
    THEN LET parent == i \div 2
         IN  IF d[i][1] > d[parent][1]
             THEN d
             ELSE MinHeap_bubbleUp_pastEqual(Swap(d, i, parent), parent)
    ELSE d

RECURSIVE MinHeap_bubbleUp(_, _)
MinHeap_bubbleUp(d, i) ==
    IF i > 1
    THEN LET parent == i \div 2
         IN  IF d[i][1] >= d[parent][1]
             THEN d
             ELSE MinHeap_bubbleUp(Swap(d, i, parent), parent)
    ELSE d

\* mutant of MinHeap_sinkDown: only the left child is compared
RECURSIVE MinHeap_sinkDown_leftOnly(_, _)
MinHeap_sinkDown_leftOnly(d, i) ==
    LET n == Len(d)
        left == 2 * i
        smallest == IF left <= n /\ d[left][1] < d[i][1] THEN left ELSE i
    IN  IF smallest = i
        THEN d
        ELSE MinHeap_sinkDown_leftOnly(Swap(d, i, smallest), smallest)

RECURSIVE MinHeap_sinkDown(_, _)
MinHeap_sinkDown(d, i) ==
    LET n == Len(d)
        left == 2 * i
        right == 2 * i + 1
        s1 == IF left <= n /\ d[left][1] < d[i][1] THEN left ELSE i
        smallest == IF right <= n /\ d[right][1] < d[s1][1] THEN right ELSE s1
    IN  IF smallest = i
        THEN d
        ELSE MinHeap_sinkDown(Swap(d, i, smallest), smallest)

MinHeap_push(data, priority, value) ==
    MinHeap_bubbleUp(Append(data, <<priority, value>>), Len(data) + 1)

\* mutant of MinHeap_pop: the last entry is moved to the top and left there
MinHeap_pop_noSink(data) ==
    LET top == data[1]
        last == data[Len(data)]
        rest == SubSeq(data, 1, Len(data) - 1)
    IN  [top |-> top,
         data |-> IF Len(rest) > 0 THEN [rest EXCEPT ![1] = last] ELSE rest]

\* pop is called only when size > 0; the result is the pair (top, data after)
MinHeap_pop(data) ==
    LET top == data[1]
        last == data[Len(data)]
        rest == SubSeq(data, 1, Len(data) - 1)
    IN  [top |-> top,
         data |-> IF Len(rest) > 0
                  THEN MinHeap_sinkDown([rest EXCEPT ![1] = last], 1)
                  ELSE rest]

MinHeap_size(data) == Len(data)

\* ------------------------------------------------------------------------
\* Module state (errors.js 18-24)
\* ------------------------------------------------------------------------

VARIABLES
    nodes,      \* Null or Some(function: node id -> <<lat, lng>>)
    adj,        \* Null or Some(function: node id -> sequence of <<neighborId, length, accCost>>)
    edgeGeom,   \* Null or Some(function: <<u, v>> -> sequence of <<lat, lng>>)
    nodeIds,    \* Null or Some(sequence of node ids)
    nodeLats,   \* Null or Some(sequence of latitudes)
    nodeLngs,   \* Null or Some(sequence of longitudes)
    cosLat,     \* cos(mean latitude) in hundredths, or NaN
    loadError,  \* how the latest loadGraph call ended: "none", or the error it rejected with
    log,        \* function: call -> outcome of the first calculateRoute calls since the load
    last,       \* Null or the latest calculateRoute call: [call, outcome, between]
    request,    \* Null or the latest route request of the page: [tolerance, body]
    heap,       \* a MinHeap under test: [data, pushes, pops, op]
    render,     \* the barrier renderer of config.js (see RenderInit)
    overlay,    \* the map overlays and the click mode (see OverlayInit)
    analytics   \* the analytics view of analytics.js (see AnalyticsInit)

graphVars == <<nodes, adj, edgeGeom, nodeIds, nodeLats, nodeLngs, cosLat>>

\* the state of the routing engine with the record of its calls
engineVars == <<graphVars, loadError, log, last>>

\* the state of the page around the engine
pageVars == <<heap, render, overlay, analytics>>

\* the value of a missing property, and of nodeIds[0] on an empty array;
\* used as a property key it is the string "undefined"
Undefined == "undefined"

\* ------------------------------------------------------------------------
\* dijkstra (errors.js 132-178)
\* ------------------------------------------------------------------------

\* mutant of dijkstra_w: the penalty is scaled by the tolerance 10 - bw in
\* place of the barrier weight bw
dijkstra_w_tolerance(length, accCost, barrierWeight) ==
    IF barrierWeight < BwThreshold
    THEN length * 100000
    ELSE length * 100000 + (10000 - barrierWeight) * Math_pow15(accCost)

\* mutant of dijkstra_w: the penalty is added under every barrier weight
dijkstra_w_noThreshold(length, accCost, barrierWeight) ==
    length * 100000 + barrierWeight * Math_pow15(accCost)

\* errors.js 149-154: the weight of an edge under barrierWeight, in 1/100000
dijkstra_w(length, accCost, barrierWeight) ==
    IF barrierWeight < BwThreshold
    THEN length * 100000
    ELSE length * 100000 + barrierWeight * Math_pow15(accCost)

\* errors.js 157: newDist < (dist[v] ?? Infinity)
dijkstra_improves(newDist, dist, v) ==
    v \notin DOMAIN dist \/ newDist < dist[v]

\* mutant of dijkstra_stale: no popped entry is taken for stale
dijkstra_stale_never(d, dist, u) == FALSE

\* errors.js 143: d > (dist[u] ?? Infinity)
dijkstra_stale(d, dist, u) ==
    u \in DOMAIN dist /\ d > dist[u]

\* errors.js 148-162: the for loop over neighbors, from index i on;
\* st is the search state (see dijkstra_init)
RECURSIVE dijkstra_relax(_, _, _, _, _, _)
dijkstra_relax(st, d, u, neighbors, i, barrierWeight) ==
    IF i > Len(neighbors)
    THEN st
    ELSE LET v == neighbors[i][1]
             w == dijkstra_w(neighbors[i][2], neighbors[i][3], barrierWeight)
             newDist == d + w
             st1 == IF dijkstra_improves(newDist, st.dist, v)
                    THEN [st EXCEPT
                            !.dist = (v :> newDist) @@ st.dist,
                            !.prev = (v :> u) @@ st.prev,
                            !.heap = MinHeap_push(st.heap, newDist, v),
                            !.pushed = Append(st.pushed,
                                [v |-> v, newDist |-> newDist,
                                 old |-> IF v \in DOMAIN st.dist
                                         THEN Some(st.dist[v]) ELSE Null])]
                    ELSE st
         IN  dijkstra_relax(st1, d, u, neighbors, i + 1, barrierWeight)

\* errors.js 133-138: the fresh search state.  Beside dist, prev and heap
\* the state keeps a record of what the loop did: expanded, the popped
\* entries whose edges were relaxed, each with the best-known distance of
\* its node at that time; pushed, the entries pushed in the for loop, each
\* with the best-known distance it replaced (Null for none); skipped, the
\* popped entries passed over as stale; found, Null or Some(d) for the
\* entry (d, endNode) on which the loop broke.
dijkstra_init(startNode) ==
    [dist |-> (startNode :> 0),
     prev |-> <<>>,
     heap |-> MinHeap_push(<<>>, 0, startNode),
     expanded |-> <<>>,
     pushed |-> <<>>,
     skipped |-> <<>>,
     found |-> Null]

\* errors.js 140-163: the while loop, run to its end; the result is the
\* search state when the loop is left (by break or on an empty heap)
RECURSIVE dijkstra_loop(_, _, _)
dijkstra_loop(st, endNode, barrierWeight) ==
    IF MinHeap_size(st.heap) > 0
    THEN LET p == MinHeap_pop(st.heap)
             d == p.top[1]
             u == p.top[2]
             popped == [st EXCEPT !.heap = p.data]
             relaxing == [popped EXCEPT !.expanded =
                             Append(st.expanded,
                                    [u |-> u, d |-> d, best |-> st.dist[u]])]
         IN  IF u = endNode
             THEN [popped EXCEPT !.found = Some(d)]
             ELSE IF dijkstra_stale(d, st.dist, u)
             THEN dijkstra_loop(
                      [popped EXCEPT !.skipped = Append(st.skipped, <<d, u>>)],
                      endNode, barrierWeight)
             ELSE IF u \notin DOMAIN Val(adj)
             THEN dijkstra_loop(popped, endNode, barrierWeight)
             ELSE dijkstra_loop(
                      dijkstra_relax(relaxing, d, u, Val(adj)[u], 1, barrierWeight),
                      endNode, barrierWeight)
    ELSE st

Reverse(s) == [i \in 1..Len(s) |-> s[Len(s) + 1 - i]]

\* errors.js 170-175: follow prev from current until it is undefined
RECURSIVE dijkstra_walk(_, _, _)
dijkstra_walk(prev, current, path) ==
    IF current = Undefined
    THEN path
    ELSE dijkstra_walk(prev,
                       IF current \in DOMAIN prev THEN prev[current] ELSE Undefined,
                       Append(path, current))

\* mutant of dijkstra_result: no exception for startNode = endNode
dijkstra_result_noSelf(st, startNode, endNode) ==
    IF endNode \notin DOMAIN st.prev
    THEN Null
    ELSE Some(Reverse(dijkstra_walk(st.prev, endNode, <<>>)))

\* mutant of dijkstra_result: the path is rebuilt without testing for a predecessor
dijkstra_result_noCheck(st, startNode, endNode) ==
    Some(Reverse(dijkstra_walk(st.prev, endNode, <<>>)))

\* errors.js 165-177 on the search state the loop ended in
dijkstra_result(st, startNode, endNode) ==
    IF endNode \notin DOMAIN st.prev /\ startNode # endNode
    THEN Null
    ELSE Some(Reverse(dijkstra_walk(st.prev, endNode, <<>>)))

\* the search state in which dijkstra(startNode, endNode, barrierWeight) leaves its loop
dijkstra_final(startNode, endNode, barrierWeight) ==
    dijkstra_loop(dijkstra_init(startNode), endNode, barrierWeight)

\* mutant of dijkstra: the path of the latest call is reused when the end
\* nodes are the same, whatever the barrier weight
dijkstra_cached(startNode, endNode, barrierWeight) ==
    IF /\ last # Null
       /\ last.outcome.startNode = startNode
       /\ last.outcome.endNode = endNode
       /\ last.outcome.accessiblePath # Null
    THEN last.outcome.accessiblePath
    ELSE dijkstra_result(dijkstra_final(startNode, endNode, barrierWeight),
                         startNode, endNode)

\* Null (no path) or Some(path)
dijkstra(startNode, endNode, barrierWeight) ==
    dijkstra_result(dijkstra_final(startNode, endNode, barrierWeight),
                    startNode, endNode)

\* ------------------------------------------------------------------------
\* loadGraph (errors.js 77-112)
\*
\* The parsed artifact `data` is a record
\*   nodes : Null (member missing) or Some(sequence of <<id, lat, lng>>), the
\*           members of the node table in the order Object.keys lists them
\*   edges : Null (member missing) or Some(sequence of <<u, v, length, accCost>>)
\*   geom  : Null (member missing) or Some(function <<u, v>> -> sequence of <<lat, lng>>)
\* ------------------------------------------------------------------------

RECURSIVE SumLats(_, _)
SumLats(entries, i) ==
    IF i > Len(entries) THEN 0 ELSE entries[i][2] + SumLats(entries, i + 1)

\* errors.js 90-97; the node tables of the model have an integer mean latitude
loadGraph_cosLat(entries) ==
    IF Len(entries) = 0
    THEN NaN
    ELSE Math_cos(SumLats(entries, 1) \div Len(entries))

\* mutant of loadGraph_edges: every edge is also entered under its to-node,
\* pointing back
RECURSIVE loadGraph_edges_bothWays(_, _, _)
loadGraph_edges_bothWays(a, edges, i) ==
    IF i > Len(edges)
    THEN a
    ELSE LET uStr == edges[i][1]
             vStr == edges[i][2]
             entry == <<vStr, edges[i][3], edges[i][4]>>
             back == <<uStr, edges[i][3], edges[i][4]>>
             a1 == IF uStr \in DOMAIN a
                   THEN [a EXCEPT ![uStr] = Append(a[uStr], entry)]
                   ELSE a
         IN  loadGraph_edges_bothWays(
                 IF uStr \in DOMAIN a /\ vStr \in DOMAIN a
                 THEN [a1 EXCEPT ![vStr] = Append(a1[vStr], back)]
                 ELSE a1,
                 edges, i + 1)

\* errors.js 107-111: the edges from index i on, pushed onto the adjacency a
RECURSIVE loadGraph_edges(_, _, _)
loadGraph_edges(a, edges, i) ==
    IF i > Len(edges)
    THEN a
    ELSE LET uStr == edges[i][1]
             entry == <<edges[i][2], edges[i][3], edges[i][4]>>
         IN  loadGraph_edges(
                 IF uStr \in DOMAIN a
                 THEN [a EXCEPT ![uStr] = Append(a[uStr], entry)]
                 ELSE a,
                 edges, i + 1)

\* The module state a call of loadGraph leaves behind once the artifact is
\* fetched and parsed, and the error it throws ("none" if it returns):
\* Object.keys(undefined) throws at line 85, iterating undefined at line 107.
loadGraph(data) ==
    LET geom == IF data.geom = Null THEN <<>> ELSE Val(data.geom)
    IN  IF data.nodes = Null
        THEN [nodes |-> Null, edgeGeom |-> Some(geom),
              nodeIds |-> nodeIds, nodeLats |-> nodeLats, nodeLngs |-> nodeLngs,
              cosLat |-> cosLat, adj |-> adj, error |-> "TypeError"]
        ELSE LET entries == Val(data.nodes)
                 n == Len(entries)
                 ids == [i \in 1..n |-> entries[i][1]]
                 table == [id \in Range(ids) |->
                              LET i == CHOOSE j \in 1..n : entries[j][1] = id
                              IN  <<entries[i][2], entries[i][3]>>]
                 empty == [id \in Range(ids) |-> <<>>]
             IN  [nodes |-> Some(table),
                  edgeGeom |-> Some(geom),
                  nodeIds |-> Some(ids),
                  nodeLats |-> Some([i \in 1..n |-> entries[i][2]]),
                  nodeLngs |-> Some([i \in 1..n |-> entries[i][3]]),
                  cosLat |-> loadGraph_cosLat(entries),
                  adj |-> IF data.edges = Null
                          THEN Some(empty)
                          ELSE Some(loadGraph_edges(empty, Val(data.edges), 1)),
                  error |-> IF data.edges = Null THEN "TypeError" ELSE "none"]

\* ------------------------------------------------------------------------
\* findNearestNode (errors.js 114-130)
\* ------------------------------------------------------------------------

\* errors.js 120-122, in 1/10000 of a squared degree
findNearestNode_dist(i, lat, lng) ==
    LET lngCorrected == lng * cosLat
        dLat == (Val(nodeLats)[i] - lat) * 100
        dLng == Val(nodeLngs)[i] * cosLat - lngCorrected
    IN  dLat * dLat + dLng * dLng

\* mutant of findNearestNode_scan: a node as near as the best one replaces it
RECURSIVE findNearestNode_scan_lastTie(_, _, _, _)
findNearestNode_scan_lastTie(i, best, lat, lng) ==
    IF i > Len(Val(nodeIds))
    THEN best
    ELSE LET dist == findNearestNode_dist(i, lat, lng)
         IN  findNearestNode_scan_lastTie(
                 i + 1,
                 IF best = Null \/ dist <= Val(best)[1]
                 THEN Some(<<dist, i>>)
                 ELSE best,
                 lat, lng)

\* errors.js 119-127: the scan from index i on; best is Null (bestDist is
\* Infinity, bestIdx is the first index) or Some(<<bestDist, bestIdx>>)
RECURSIVE findNearestNode_scan(_, _, _, _)
findNearestNode_scan(i, best, lat, lng) ==
    IF i > Len(Val(nodeIds))
    THEN best
    ELSE LET dist == findNearestNode_dist(i, lat, lng)
         IN  findNearestNode_scan(
                 i + 1,
                 IF best = Null \/ dist < Val(best)[1]
                 THEN Some(<<dist, i>>)
                 ELSE best,
                 lat, lng)

findNearestNode(lat, lng) ==
    LET best == findNearestNode_scan(1, Null, lat, lng)
        bestIdx == IF best = Null THEN 1 ELSE Val(best)[2]
    IN  IF bestIdx \in DOMAIN Val(nodeIds)
        THEN Val(nodeIds)[bestIdx]
        ELSE Undefined

\* ------------------------------------------------------------------------
\* pathToGeoJSON (errors.js 180-227)
\* ------------------------------------------------------------------------

\* [lng, lat] of a stored [lat, lng] point
LngLat(p) == <<p[2], p[1]>>

\* errors.js 195-197: coords[j], coords[j+1], ... in [lng, lat] order (j is 1-based)
RECURSIVE pathToGeoJSON_forward(_, _)
pathToGeoJSON_forward(coords, j) ==
    IF j > Len(coords)
    THEN <<>>
    ELSE <<LngLat(coords[j])>> \o pathToGeoJSON_forward(coords, j + 1)

\* errors.js 200-202: coords[j], coords[j-1], ..., coords[first] in [lng, lat] order
RECURSIVE pathToGeoJSON_backward(_, _)
pathToGeoJSON_backward(coords, j) ==
    IF j < 1
    THEN <<>>
    ELSE <<LngLat(coords[j])>> \o pathToGeoJSON_backward(coords, j - 1)

\* mutant of pathToGeoJSON_hop: the first point of a stored geometry is
\* emitted on every hop
pathToGeoJSON_hop_noSkip(path, i) ==
    LET u == path[i]
        v == path[i + 1]
        geomKey == <<u, v>>
        geomKeyReverse == <<v, u>>
        geom == Val(edgeGeom)
    IN  IF geomKey \in DOMAIN geom
        THEN pathToGeoJSON_forward(geom[geomKey], 1)
        ELSE IF geomKeyReverse \in DOMAIN geom
        THEN pathToGeoJSON_backward(geom[geomKeyReverse], Len(geom[geomKeyReverse]))
        ELSE (IF i = 1 THEN <<LngLat(Val(nodes)[u])>> ELSE <<>>)
             \o <<LngLat(Val(nodes)[v])>>

\* mutant of pathToGeoJSON_hop: the geometry stored under "v,u" is looked
\* up before the one stored under "u,v"
pathToGeoJSON_hop_reverseFirst(path, i) ==
    LET u == path[i]
        v == path[i + 1]
        geomKey == <<u, v>>
        geomKeyReverse == <<v, u>>
        geom == Val(edgeGeom)
    IN  IF geomKeyReverse \in DOMAIN geom
        THEN pathToGeoJSON_backward(geom[geomKeyReverse],
                 Len(geom[geomKeyReverse]) - (IF i = 1 THEN 0 ELSE 1))
        ELSE IF geomKey \in DOMAIN geom
        THEN pathToGeoJSON_forward(geom[geomKey], IF i = 1 THEN 1 ELSE 2)
        ELSE (IF i = 1 THEN <<LngLat(Val(nodes)[u])>> ELSE <<>>)
             \o <<LngLat(Val(nodes)[v])>>

\* errors.js 186-211: the points hop i (1-based) of the path contributes
pathToGeoJSON_hop(path, i) ==
    LET u == path[i]
        v == path[i + 1]
        geomKey == <<u, v>>
        geomKeyReverse == <<v, u>>
        geom == Val(edgeGeom)
    IN  IF geomKey \in DOMAIN geom
        THEN pathToGeoJSON_forward(geom[geomKey], IF i = 1 THEN 1 ELSE 2)
        ELSE IF geomKeyReverse \in DOMAIN geom
        THEN pathToGeoJSON_backward(geom[geomKeyReverse],
                 Len(geom[geomKeyReverse]) - (IF i = 1 THEN 0 ELSE 1))
        ELSE (IF i = 1 THEN <<LngLat(Val(nodes)[u])>> ELSE <<>>)
             \o <<LngLat(Val(nodes)[v])>>

RECURSIVE pathToGeoJSON_coordinates(_, _)
pathToGeoJSON_coordinates(path, i) ==
    IF i > Len(path) - 1
    THEN <<>>
    ELSE pathToGeoJSON_hop(path, i) \o pathToGeoJSON_coordinates(path, i + 1)

\* Null, or Some(coordinates) for the FeatureCollection with that LineString;
\* path is Null or Some(sequence of node ids)
pathToGeoJSON(path) ==
    IF path = Null \/ Len(Val(path)) < 2
    THEN Null
    ELSE Some(pathToGeoJSON_coordinates(Val(path), 1))

\* ------------------------------------------------------------------------
\* computeRouteStats (errors.js 229-268)
\* ------------------------------------------------------------------------

\* mutant of computeRouteStats_w: the penalty is the square of the cost
computeRouteStats_w_squared(length, accCost, barrierWeight) ==
    IF barrierWeight < BwThreshold
    THEN length * 100000
    ELSE length * 100000 + barrierWeight * (accCost * accCost * 100)

\* errors.js 246-249
computeRouteStats_w(length, accCost, barrierWeight) ==
    IF barrierWeight < BwThreshold
    THEN length * 100000
    ELSE length * 100000 + barrierWeight * Math_pow15(accCost)

\* mutant of computeRouteStats_best: the first edge to v is taken, whatever its weight
RECURSIVE computeRouteStats_best_first(_, _, _, _, _)
computeRouteStats_best_first(neighbors, i, v, best, barrierWeight) ==
    IF i > Len(neighbors)
    THEN best
    ELSE LET w == computeRouteStats_w(neighbors[i][2], neighbors[i][3], barrierWeight)
         IN  computeRouteStats_best_first(
                 neighbors, i + 1, v,
                 IF neighbors[i][1] = v /\ best = Null
                 THEN Some(<<w, neighbors[i][2], neighbors[i][3]>>)
                 ELSE best,
                 barrierWeight)

\* mutant of computeRouteStats_best: the comparison is turned round, the
\* heaviest edge to v is taken
RECURSIVE computeRouteStats_best_heaviest(_, _, _, _, _)
computeRouteStats_best_heaviest(neighbors, i, v, best, barrierWeight) ==
    IF i > Len(neighbors)
    THEN best
    ELSE LET w == computeRouteStats_w(neighbors[i][2], neighbors[i][3], barrierWeight)
         IN  computeRouteStats_best_heaviest(
                 neighbors, i + 1, v,
                 IF neighbors[i][1] = v /\ (best = Null \/ w > Val(best)[1])
                 THEN Some(<<w, neighbors[i][2], neighbors[i][3]>>)
                 ELSE best,
                 barrierWeight)

\* mutant of computeRouteStats_best: an edge to v as light as the best one
\* replaces it
RECURSIVE computeRouteStats_best_lastTie(_, _, _, _, _)
computeRouteStats_best_lastTie(neighbors, i, v, best, barrierWeight) ==
    IF i > Len(neighbors)
    THEN best
    ELSE LET w == computeRouteStats_w(neighbors[i][2], neighbors[i][3], barrierWeight)
         IN  computeRouteStats_best_lastTie(
                 neighbors, i + 1, v,
                 IF neighbors[i][1] = v /\ (best = Null \/ w <= Val(best)[1])
                 THEN Some(<<w, neighbors[i][2], neighbors[i][3]>>)
                 ELSE best,
                 barrierWeight)

\* errors.js 244-256: the scan of neighbors from index i on; best is Null
\* (bestWeight is Infinity) or Some(<<bestWeight, bestLength, bestAccCost>>)
RECURSIVE computeRouteStats_best(_, _, _, _, _)
computeRouteStats_best(neighbors, i, v, best, barrierWeight) ==
    IF i > Len(neighbors)
    THEN best
    ELSE LET w == computeRouteStats_w(neighbors[i][2], neighbors[i][3], barrierWeight)
         IN  computeRouteStats_best(
                 neighbors, i + 1, v,
                 IF neighbors[i][1] = v /\ (best = Null \/ w < Val(best)[1])
                 THEN Some(<<w, neighbors[i][2], neighbors[i][3]>>)
                 ELSE best,
                 barrierWeight)

\* the edge selected on hop i: <<bestWeight, bestLength, bestAccCost>>, or
\* Null when no neighbor of path[i] is path[i + 1] (bestLength, bestAccCost are 0)
computeRouteStats_hop(path, i, barrierWeight) ==
    computeRouteStats_best(Val(adj)[path[i]], 1, path[i + 1], Null, barrierWeight)

RECURSIVE computeRouteStats_sum(_, _, _, _)
computeRouteStats_sum(path, i, acc, barrierWeight) ==
    IF i > Len(path) - 1
    THEN acc
    ELSE LET best == computeRouteStats_hop(path, i, barrierWeight)
             bestLength == IF best = Null THEN 0 ELSE Val(best)[2]
             bestAccCost == IF best = Null THEN 0 ELSE Val(best)[3]
         IN  computeRouteStats_sum(
                 path, i + 1,
                 [length |-> acc.length + bestLength,
                  barrier_cost |-> acc.barrier_cost + bestAccCost,
                  barrier_count |-> acc.barrier_count
                                      + (IF bestAccCost > 0 THEN 1 ELSE 0)],
                 barrierWeight)

computeRouteStats(path, barrierWeight) ==
    computeRouteStats_sum(path, 1,
        [length |-> 0, barrier_cost |-> 0, barrier_count |-> 0], barrierWeight)

\* ------------------------------------------------------------------------
\* calculateRoute (errors.js 270-319)
\* ------------------------------------------------------------------------

NoResult(error) ==
    [error |-> error, ret |-> Null, startNode |-> Undefined, endNode |-> Undefined,
     accessiblePath |-> Null, standardPath |-> Null]

\* The outcome of a call: error is "none" and ret is Some(returned object),
\* or error is the error thrown and ret is Null.  startNode, endNode,
\* accessiblePath and standardPath are the locals of the call.
calculateRoute(startLat, startLng, endLat, endLng, barrierWeight) ==
    IF nodes = Null \/ adj = Null
    THEN NoResult("Graph not loaded. Call loadGraph() first.")
    ELSE
    LET startNode == findNearestNode(startLat, startLng)
        endNode == findNearestNode(endLat, endLng)
        accessiblePath == dijkstra(startNode, endNode, barrierWeight)
        standardPath == dijkstra(startNode, endNode, 0)
    IN  IF accessiblePath = Null
        THEN [NoResult("No path found between the specified points")
                 EXCEPT !.startNode = startNode, !.endNode = endNode]
        ELSE IF standardPath = Null
        THEN [NoResult("No path found between the specified points")
                 EXCEPT !.startNode = startNode, !.endNode = endNode,
                        !.accessiblePath = accessiblePath]
        ELSE IF startNode \notin DOMAIN Val(nodes) \/ endNode \notin DOMAIN Val(nodes)
        THEN \* errors.js 316-317: startCoords[0] of undefined
             [NoResult("TypeError")
                 EXCEPT !.startNode = startNode, !.endNode = endNode,
                        !.accessiblePath = accessiblePath,
                        !.standardPath = standardPath]
        ELSE
        LET startCoords == Val(nodes)[startNode]
            endCoords == Val(nodes)[endNode]
            accessibleStats == computeRouteStats(Val(accessiblePath), barrierWeight)
            standardStats == computeRouteStats(Val(standardPath), 0)
        IN  [error |-> "none",
             ret |-> Some(
                [accessible_route |-> pathToGeoJSON(accessiblePath),
                 standard_route |-> pathToGeoJSON(standardPath),
                 stats |->
                    [accessible_length |-> accessibleStats.length,
                     accessible_barrier_cost |-> accessibleStats.barrier_cost,
                     accessible_barrier_count |-> accessibleStats.barrier_count,
                     standard_length |-> standardStats.length,
                     standard_barrier_cost |-> standardStats.barrier_cost,
                     standard_barrier_count |-> standardStats.barrier_count],
                 snapped_start |-> [lat |-> startCoords[1], lng |-> startCoords[2]],
                 snapped_end |-> [lat |-> endCoords[1], lng |-> endCoords[2]]]),
             startNode |-> startNode, endNode |-> endNode,
             accessiblePath |-> accessiblePath, standardPath |-> standardPath]

\* ------------------------------------------------------------------------
\* Artifacts and queries of the model
\* ------------------------------------------------------------------------

\* edge lengths are multiples of 10 m up to 10 * MaxLen
MaxLen == 2

Lengths == {10 * k : k \in 1..MaxLen}

\* how many distinct calls since the load the log keeps
MaxLog == 1

\* the node table: the diamond A, B, C, D (mean latitude 30)
NodeTable == << <<"A", 30, 0>>, <<"B", 60, 10>>, <<"C", 0, 10>>, <<"D", 30, 20>> >>

\* The edge tables of the sweep: every slot, in this order, is absent or is
\* one edge u -> v with a length and a cost of the slot.  The family holds
\* the diamond of the spec, parallel edges, a cycle and disconnected pairs.
EdgeSlots ==
    << [u |-> "A", v |-> "B", lengths |-> Lengths, costs |-> {0}],
       [u |-> "A", v |-> "C", lengths |-> {10}, costs |-> {5}],
       [u |-> "B", v |-> "D", lengths |-> {10}, costs |-> {0, 5}],
       [u |-> "C", v |-> "D", lengths |-> {10}, costs |-> {0}],
       [u |-> "A", v |-> "D", lengths |-> {10}, costs |-> {9}],
       [u |-> "D", v |-> "A", lengths |-> {10}, costs |-> {0}],
       [u |-> "A", v |-> "B", lengths |-> {10}, costs |-> {0, 5}] >>

RECURSIVE EdgeTablesFrom(_)
EdgeTablesFrom(i) ==
    IF i > Len(EdgeSlots)
    THEN {<<>>}
    ELSE LET rest == EdgeTablesFrom(i + 1)
             slot == EdgeSlots[i]
         IN  rest \cup {<<<<slot.u, slot.v, l, c>>>> \o r :
                           l \in slot.lengths, c \in slot.costs, r \in rest}

SweepArtifacts ==
    {[nodes |-> Some(NodeTable), edges |-> Some(e), geom |-> Null] :
        e \in EdgeTablesFrom(1)}

\* the diamond of the spec, section 8
DiamondEdges ==
    << <<"A", "B", 10, 0>>, <<"A", "C", 10, 5>>,
       <<"B", "D", 10, 0>>, <<"C", "D", 10, 0>> >>

\* query coordinates <<lat, lng>>: the point of A, and a point that snaps to D
SweepPoints == {<<30, 0>>, <<31, 19>>}

\* barrier weights in thousandths: 0, 0.005, 0.01 and 10
SweepWeights == {0, 5, 10, 10000}

\* a call is <<start point, end point, barrier weight>>
SweepCalls == SweepPoints \X SweepPoints \X SweepWeights

\* ------------------------------------------------------------------------
\* Actions
\* ------------------------------------------------------------------------

vars == <<nodes, adj, edgeGeom, nodeIds, nodeLats, nodeLngs, cosLat,
          loadError, log, last, request, heap, render, overlay, analytics>>

\* loadGraph, from the point where the artifact is fetched and parsed
Load(data) ==
    LET g == loadGraph(data)
    IN  /\ nodes' = g.nodes
        /\ adj' = g.adj
        /\ edgeGeom' = g.edgeGeom
        /\ nodeIds' = g.nodeIds
        /\ nodeLats' = g.nodeLats
        /\ nodeLngs' = g.nodeLngs
        /\ cosLat' = g.cosLat
        /\ loadError' = g.error
        /\ log' = <<>>
        /\ last' = Null
        /\ UNCHANGED <<request, pageVars>>

\* mutant of Query: the search takes the edges of the start node off its
\* adjacency list as it relaxes them
Query_consuming(call) ==
    LET outcome == calculateRoute(call[1][1], call[1][2], call[2][1], call[2][2],
                                  call[3])
    IN  /\ last' = [call |-> call, outcome |-> outcome,
                    between |-> /\ call \in DOMAIN log
                                /\ last # Null
                                /\ last.call # call]
        /\ log' = IF call \in DOMAIN log \/ Cardinality(DOMAIN log) >= MaxLog
                  THEN log
                  ELSE (call :> outcome) @@ log
        /\ adj' = IF adj # Null /\ outcome.startNode \in DOMAIN Val(adj)
                  THEN Some([Val(adj) EXCEPT ![outcome.startNode] = <<>>])
                  ELSE adj
        /\ UNCHANGED <<nodes, edgeGeom, nodeIds, nodeLats, nodeLngs, cosLat,
                       loadError, request, pageVars>>

\* one call of calculateRoute; the log keeps the outcome of the first
\* MaxLog distinct calls since the load; between tells that the call repeats
\* a call on the log and that the call before it was a different one
Query(call) ==
    LET outcome == calculateRoute(call[1][1], call[1][2], call[2][1], call[2][2],
                                  call[3])
    IN  /\ last' = [call |-> call, outcome |-> outcome,
                    between |-> /\ call \in DOMAIN log
                                /\ last # Null
                                /\ last.call # call]
        /\ log' = IF call \in DOMAIN log \/ Cardinality(DOMAIN log) >= MaxLog
                  THEN log
                  ELSE (call :> outcome) @@ log
        /\ UNCHANGED <<graphVars, loadError, request, pageVars>>

\* ------------------------------------------------------------------------
\* The page around the engine: initial values
\* ------------------------------------------------------------------------

\* new MinHeap() (errors.js 28-30), with the record of the operations on
\* it: how many pushes and pops, and the latest operation with the data
\* before it
HeapInit == [data |-> <<>>, pushes |-> 0, pops |-> 0, op |-> Null]

\* how many barriers the backend returns at most
MaxMarkers == 3

\* initBarriers of config.js up to its fetch (config.js 13-17, 98): no
\* markers, token 0, the barriers layer empty and on the map, no filter
\* timer, every filter control letting every barrier through. With it the
\* record of what happened: the markers of the latest renderBarriers call
\* (invoked), whether a call began while an earlier one had a chunk pending
\* (superseded), whether a superseded chunk ran and returned (dropped),
\* whether a superseded chunk added a marker (late), and the count a
\* hidden-layer applyFilters wrote since the latest completed render (hidden)
RenderInit ==
    [fetched |-> FALSE, allBarrierMarkers |-> <<>>, renderToken |-> 0,
     barriersLayer |-> {}, hasLayer |-> TRUE, statVisible |-> Null,
     frames |-> {}, filterTimer |-> FALSE, filter |-> 1..MaxMarkers,
     invoked |-> Null, superseded |-> FALSE, dropped |-> FALSE,
     late |-> FALSE, hidden |-> Null]

\* the overlays and the click mode after main.js has run its init calls:
\* routing.js 4-6 (clickMode, originMarker, destinationMarker null),
\* barriers.js 2-5, part_001 11 and priorities.js 12 (no markers,
\* interactivityEnabled true). mapLayers are the origin and destination
\* markers on the map, markersMade counts the L.marker objects made, click
\* is the record of a map click in the state right after it
OverlayInit ==
    [clickMode |-> Null, originMarker |-> Null, destinationMarker |-> Null,
     startField |-> Null, endField |-> Null, mapLayers |-> {},
     markersMade |-> 0, popup |-> FALSE,
     barriersEnabled |-> TRUE, barriersBuilt |-> FALSE,
     allBarrierMarkers |-> <<>>, barriersAdded |-> 0, statVisible |-> Null,
     clustersEnabled |-> TRUE, clustersFetched |-> FALSE,
     clusterMarkers |-> <<>>,
     prioritiesEnabled |-> TRUE, prioritiesFetched |-> FALSE,
     priorityMarkers |-> <<>>,
     click |-> Null]

\* initAnalytics (analytics.js): analyticsLoaded false, the container as the
\* page has it, no load under way. fetching and parsing count the
\* loadAnalytics calls awaiting fetch() and response.json(); loads and
\* renders count the calls of loadAnalytics and of renderCharts; call is the
\* record of a loadAnalyticsIfNeeded call in the state right after it
AnalyticsInit ==
    [analyticsLoaded |-> FALSE, container |-> "empty", fetching |-> 0,
     parsing |-> 0, loads |-> 0, renders |-> 0, call |-> Null]

\* how many operations a heap under test takes
MaxOps == 6

HeapPriorities == {0, 1, 2}

\* heap.push(priority, value); the value is the number of the push
HeapPush(priority) ==
    /\ heap.pushes + heap.pops < MaxOps
    /\ LET value == heap.pushes + 1
       IN  heap' = [data |-> MinHeap_push(heap.data, priority, value),
                    pushes |-> heap.pushes + 1,
                    pops |-> heap.pops,
                    op |-> Some([kind |-> "push", entry |-> <<priority, value>>,
                                 before |-> heap.data])]
    /\ UNCHANGED <<engineVars, request, render, overlay, analytics>>

\* heap.pop(), called when heap.size > 0
HeapPop ==
    /\ heap.pushes + heap.pops < MaxOps
    /\ MinHeap_size(heap.data) > 0
    /\ LET p == MinHeap_pop(heap.data)
       IN  heap' = [data |-> p.data,
                    pushes |-> heap.pushes,
                    pops |-> heap.pops + 1,
                    op |-> Some([kind |-> "pop", entry |-> p.top,
                                 before |-> heap.data])]
    /\ UNCHANGED <<engineVars, request, render, overlay, analytics>>

HeapNext == (\E priority \in HeapPriorities : HeapPush(priority)) \/ HeapPop

\* ------------------------------------------------------------------------
\* The barrier renderer of config.js
\* ------------------------------------------------------------------------

\* how many times the filters are applied at most
MaxRenders == 4

\* chunkSize (config.js 46), 1500 in the source, scaled to the marker counts
\* of the model
ChunkSize == 2

\* the barriers of the response: barrier k has adjusted severity k
BarrierCounts == 0..MaxMarkers

\* what the filter controls let through: the severities sevMin..sevMax
\* (config.js 67-76, 83-86)
FilterSettings == {lo..hi : lo \in 1..MaxMarkers, hi \in 1..MaxMarkers}

Math_min(a, b) == IF a < b THEN a ELSE b

\* if (token !== renderToken) return, negated (config.js 50)
config_addChunk_current_always(token, renderToken) == TRUE

config_addChunk_current(token, renderToken) == token = renderToken

\* addChunk of the renderBarriers call with this token, at index i
\* (config.js 49-62)
config_addChunk(r, token, i, markers) ==
    IF ~config_addChunk_current(token, r.renderToken)
    THEN [r EXCEPT !.dropped = TRUE]
    ELSE LET end == Math_min(i + ChunkSize, Len(markers))
             added == {markers[k] : k \in (i + 1)..end}
             r1 == [r EXCEPT !.barriersLayer = @ \cup added,
                             !.late = @ \/ (token # r.renderToken /\ added # {})]
         IN  IF end < Len(markers)
             THEN [r1 EXCEPT !.frames = @ \cup {[token |-> token, i |-> end,
                                                 markers |-> markers]}]
             ELSE [r1 EXCEPT !.statVisible = Some(Len(markers)),
                             !.hidden = Null]

\* renderBarriers(markers) (config.js 43-65)
config_renderBarriers(r, markers) ==
    LET token == r.renderToken + 1
        r1 == [r EXCEPT !.renderToken = token,
                        !.barriersLayer = {},
                        !.invoked = Some(markers),
                        !.superseded =
                            @ \/ (\E f \in r.frames : f.token = r.renderToken)]
    IN  config_addChunk(r1, token, 0, markers)

\* applyFilters() (config.js 78-96)
config_applyFilters(r) ==
    LET filteredMarkers == SelectSeq(r.allBarrierMarkers,
                                     LAMBDA m : m \in r.filter)
    IN  IF r.hasLayer
        THEN config_renderBarriers(r, filteredMarkers)
        ELSE [r EXCEPT !.statVisible = Some(Len(filteredMarkers)),
                       !.hidden = Some(Len(filteredMarkers))]

\* the fetch of the barriers resolves (config.js 134-150)
BarriersFetched(n) ==
    /\ ~render.fetched
    /\ render.renderToken < MaxRenders
    /\ render' = config_applyFilters(
                    [render EXCEPT !.fetched = TRUE,
                                   !.allBarrierMarkers = [k \in 1..n |-> k]])
    /\ UNCHANGED <<engineVars, request, heap, overlay, analytics>>

\* a type checkbox, the hide-temp checkbox or a slider's input event: the
\* controls change and the filters are scheduled (config.js 99-124, 129-132)
FilterInput(S) ==
    /\ render' = [render EXCEPT !.filter = S, !.filterTimer = TRUE]
    /\ UNCHANGED <<engineVars, request, heap, overlay, analytics>>

\* the filter timer fires (config.js 101-104)
FilterTimer ==
    /\ render.filterTimer
    /\ render.renderToken < MaxRenders
    /\ render' = config_applyFilters([render EXCEPT !.filterTimer = FALSE])
    /\ UNCHANGED <<engineVars, request, heap, overlay, analytics>>

\* a slider's change event (config.js 125-126)
SeverityChange ==
    /\ render.renderToken < MaxRenders
    /\ render' = config_applyFilters(render)
    /\ UNCHANGED <<engineVars, request, heap, overlay, analytics>>

\* the toggle-barriers checkbox changes (part_003 43-50)
ToggleBarriers ==
    /\ render.renderToken < MaxRenders
    /\ render' = IF ~render.hasLayer
                 THEN config_applyFilters([render EXCEPT !.hasLayer = TRUE])
                 ELSE [render EXCEPT !.hasLayer = FALSE]
    /\ UNCHANGED <<engineVars, request, heap, overlay, analytics>>

\* the browser runs one requested animation frame (config.js 57)
AnimationFrame(f) ==
    /\ f \in render.frames
    /\ render' = config_addChunk([render EXCEPT !.frames = @ \ {f}],
                                 f.token, f.i, f.markers)
    /\ UNCHANGED <<engineVars, request, heap, overlay, analytics>>

RenderNext ==
    \/ \E n \in BarrierCounts : BarriersFetched(n)
    \/ \E S \in FilterSettings : FilterInput(S)
    \/ FilterTimer
    \/ SeverityChange
    \/ ToggleBarriers
    \/ \E f \in render.frames : AnimationFrame(f)

\* ------------------------------------------------------------------------
\* The overlays of barriers.js, part_001 and priorities.js, and the click
\* mode of routing.js
\* ------------------------------------------------------------------------

\* how many origin and destination markers the map clicks make at most
MaxClicks == 3

\* how many barrier markers the backend returns
OverlayCounts == 0..3

\* how many cluster markers and priority markers the backend returns
ClusterCounts == {0, 2}

\* what the filter controls let through: the severities sevMin..sevMax
\* (barriers.js 52-61, 90-93)
OverlayFilters == {lo..hi : lo \in 1..3, hi \in 1..3}

\* where a map click lands (e.latlng), in ten-thousandths of a degree, so
\* that toFixed(4) keeps the value
ClickPoints == {1, 2}

ClickModes == {Null, Some("origin"), Some("destination")}

\* buildBarrierMarkers (barriers.js 10-30): each marker visible, and
\* options.interactive left at Leaflet's default, true
buildBarrierMarkers(n) == [k \in 1..n |-> [visible |-> TRUE, interactive |-> TRUE]]

\* setMarkerVisibility(markerObj, visible) (barriers.js 63-71)
setMarkerVisibility(markerObj, visible, interactivityEnabled) ==
    IF markerObj.visible = visible
    THEN markerObj
    ELSE [visible |-> visible,
          interactive |-> visible /\ interactivityEnabled]

\* applyFilters() of barriers.js (84-100); barrier k has adjusted severity k
\* and S is what the filter controls let through
barriers_applyFilters(o, S) ==
    LET all == o.allBarrierMarkers
    IN  [o EXCEPT !.allBarrierMarkers =
                      [k \in DOMAIN all |->
                          setMarkerVisibility(all[k], k \in S, o.barriersEnabled)],
                  !.statVisible =
                      Some(Cardinality({k \in DOMAIN all : k \in S}))]

\* setInteractivityEnabled(enabled) of barriers.js (73-82)
barriers_setInteractivityEnabled(o, enabled) ==
    IF o.barriersEnabled = enabled
    THEN o
    ELSE LET all == o.allBarrierMarkers
         IN  [o EXCEPT !.barriersEnabled = enabled,
                       !.allBarrierMarkers =
                           [k \in DOMAIN all |->
                               [all[k] EXCEPT !.interactive =
                                                  all[k].visible /\ enabled]],
                       !.popup = IF enabled THEN @ ELSE FALSE]

\* setInteractivityEnabled(enabled) of the clusters (part_001 95-100)
clusters_setInteractivityEnabled(o, enabled) ==
    IF o.clustersEnabled = enabled
    THEN o
    ELSE [o EXCEPT !.clustersEnabled = enabled,
                   !.clusterMarkers = [k \in DOMAIN @ |-> enabled]]

\* setInteractivityEnabled(enabled) of priorities.js (178-185)
priorities_setInteractivityEnabled(o, enabled) ==
    IF o.prioritiesEnabled = enabled
    THEN o
    ELSE [o EXCEPT !.prioritiesEnabled = enabled,
                   !.priorityMarkers = [k \in DOMAIN @ |-> enabled],
                   !.popup = IF enabled THEN @ ELSE FALSE]

\* setOverlayInteractivity as main.js passes it to initRouting
\* (part_002 41-45)
setOverlayInteractivity(o, enabled) ==
    priorities_setInteractivityEnabled(
        clusters_setInteractivityEnabled(
            barriers_setInteractivityEnabled(o, enabled), enabled), enabled)

\* setClickMode without its call of setOverlayInteractivity
setClickMode_modeOnly(o, mode) == [o EXCEPT !.clickMode = mode]

\* setClickMode(mode) (routing.js 104-117); !clickMode is true for null only
setClickMode(o, mode) ==
    setOverlayInteractivity([o EXCEPT !.clickMode = mode], mode = Null)

\* the fetch of the barriers resolves (barriers.js 140-151): the markers are
\* built, addAllMarkers adds the first chunk, applyFilters runs
OverlayBarriersFetched(n, S) ==
    /\ ~overlay.barriersBuilt
    /\ overlay' = barriers_applyFilters(
                     [overlay EXCEPT !.barriersBuilt = TRUE,
                                     !.allBarrierMarkers = buildBarrierMarkers(n),
                                     !.barriersAdded = Math_min(ChunkSize, n),
                                     !.click = Null], S)
    /\ UNCHANGED <<engineVars, request, heap, render, analytics>>

\* addChunk of addAllMarkers in a later animation frame (barriers.js 36-47)
OverlayAnimationFrame ==
    /\ overlay.barriersAdded < Len(overlay.allBarrierMarkers)
    /\ overlay' = [overlay EXCEPT
                      !.barriersAdded =
                          Math_min(@ + ChunkSize, Len(overlay.allBarrierMarkers)),
                      !.click = Null]
    /\ UNCHANGED <<engineVars, request, heap, render, analytics>>

\* the filter controls are at S when applyFilters runs, from the filter
\* timer or from a slider's change event (barriers.js 102-134)
OverlayApplyFilters(S) ==
    /\ overlay' = barriers_applyFilters([overlay EXCEPT !.click = Null], S)
    /\ UNCHANGED <<engineVars, request, heap, render, analytics>>

\* a barrier marker on the layer is clicked and takes the click: its popup
\* opens (barriers.js 21-27)
BarrierMarkerClick(k) ==
    /\ k \in 1..overlay.barriersAdded
    /\ overlay.allBarrierMarkers[k].interactive
    /\ overlay' = [overlay EXCEPT !.popup = TRUE, !.click = Null]
    /\ UNCHANGED <<engineVars, request, heap, render, analytics>>

\* the fetch of the clusters resolves (part_001 60-86)
ClustersFetched(n) ==
    /\ ~overlay.clustersFetched
    /\ overlay' = [overlay EXCEPT
                      !.clustersFetched = TRUE,
                      !.clusterMarkers = [k \in 1..n |-> overlay.clustersEnabled],
                      !.click = Null]
    /\ UNCHANGED <<engineVars, request, heap, render, analytics>>

\* the fetch of the fix priorities resolves (priorities.js 138-149)
PrioritiesFetched(n) ==
    /\ ~overlay.prioritiesFetched
    /\ overlay' = [overlay EXCEPT
                      !.prioritiesFetched = TRUE,
                      !.priorityMarkers = [k \in 1..n |-> overlay.prioritiesEnabled],
                      !.click = Null]
    /\ UNCHANGED <<engineVars, request, heap, render, analytics>>

\* the set-origin button is clicked (routing.js 119-121)
OriginButton ==
    /\ overlay' = setClickMode([overlay EXCEPT !.click = Null],
                               IF overlay.clickMode = Some("origin")
                               THEN Null ELSE Some("origin"))
    /\ UNCHANGED <<engineVars, request, heap, render, analytics>>

\* the set-destination button is clicked (routing.js 123-127)
DestinationButton ==
    /\ overlay' = setClickMode([overlay EXCEPT !.click = Null],
                               IF overlay.clickMode = Some("destination")
                               THEN Null ELSE Some("destination"))
    /\ UNCHANGED <<engineVars, request, heap, render, analytics>>

\* routing.resetClickMode(), which the view tabs call on leaving the route
\* view (routing.js 399-401, part_002 148-153)
ResetClickMode ==
    /\ overlay' = setClickMode([overlay EXCEPT !.click = Null], Null)
    /\ UNCHANGED <<engineVars, request, heap, render, analytics>>

\* the map's click handler at e.latlng (routing.js 138-161)
map_click(o, latlng) ==
    LET marker == [id |-> o.markersMade + 1, latlng |-> latlng]
    IN  IF o.clickMode = Null
        THEN o
        ELSE IF o.clickMode = Some("origin")
        THEN setClickMode(
                 [o EXCEPT !.startField = Some(latlng),
                           !.mapLayers = (@ \ Range(o.originMarker)) \cup {marker},
                           !.originMarker = Some(marker),
                           !.markersMade = @ + 1], Null)
        ELSE IF o.clickMode = Some("destination")
        THEN setClickMode(
                 [o EXCEPT !.endField = Some(latlng),
                           !.mapLayers = (@ \ Range(o.destinationMarker)) \cup {marker},
                           !.destinationMarker = Some(marker),
                           !.markersMade = @ + 1], Null)
        ELSE o

\* the map is clicked at latlng
MapClick(latlng) ==
    /\ overlay.clickMode # Null => overlay.markersMade < MaxClicks
    /\ LET before == [overlay EXCEPT !.click = Null]
       IN  overlay' = [map_click(before, latlng) EXCEPT
                          !.click = Some([latlng |-> latlng, before |-> before])]
    /\ UNCHANGED <<engineVars, request, heap, render, analytics>>

OverlayNext ==
    \/ \E n \in OverlayCounts, S \in OverlayFilters : OverlayBarriersFetched(n, S)
    \/ OverlayAnimationFrame
    \/ \E S \in OverlayFilters : OverlayApplyFilters(S)
    \/ \E k \in OverlayCounts : BarrierMarkerClick(k)
    \/ \E n \in ClusterCounts : ClustersFetched(n)
    \/ \E n \in ClusterCounts : PrioritiesFetched(n)
    \/ OriginButton
    \/ DestinationButton
    \/ ResetClickMode
    \/ \E latlng \in ClickPoints : MapClick(latlng)

\* ------------------------------------------------------------------------
\* The analytics view of analytics.js
\* ------------------------------------------------------------------------

\* how many times loadAnalytics is called at most
MaxLoads == 4

\* the catch block of loadAnalytics (analytics.js 227-235)
loadAnalytics_catch(a) == [a EXCEPT !.container = "error", !.call = Null]

\* loadAnalyticsIfNeeded() (analytics.js 238-242) and loadAnalytics up to
\* its first await (179-183)
LoadAnalyticsIfNeeded ==
    /\ ~analytics.analyticsLoaded => analytics.loads < MaxLoads
    /\ LET before == [analytics EXCEPT !.call = Null]
           after == IF ~analytics.analyticsLoaded
                    THEN [before EXCEPT !.fetching = @ + 1, !.loads = @ + 1]
                    ELSE before
       IN  analytics' = [after EXCEPT !.call = Some([before |-> before])]
    /\ UNCHANGED <<engineVars, request, heap, render, overlay>>

\* the fetch of one load settles: a response that is ok goes on to
\* response.json(), anything else to the catch block (analytics.js 183-184)
AnalyticsFetchSettles(ok) ==
    /\ analytics.fetching > 0
    /\ LET a == [analytics EXCEPT !.fetching = @ - 1, !.call = Null]
       IN  analytics' = IF ok THEN [a EXCEPT !.parsing = @ + 1]
                        ELSE loadAnalytics_catch(a)
    /\ UNCHANGED <<engineVars, request, heap, render, overlay>>

\* response.json() of one load settles: with the data the flag is set, the
\* container filled and the charts rendered (analytics.js 185-226)
AnalyticsJsonSettles(ok) ==
    /\ analytics.parsing > 0
    /\ LET a == [analytics EXCEPT !.parsing = @ - 1, !.call = Null]
       IN  analytics' = IF ok
                        THEN [a EXCEPT !.analyticsLoaded = TRUE,
                                       !.container = "charts",
                                       !.renders = @ + 1]
                        ELSE loadAnalytics_catch(a)
    /\ UNCHANGED <<engineVars, request, heap, render, overlay>>

AnalyticsNext ==
    \/ LoadAnalyticsIfNeeded
    \/ \E ok \in BOOLEAN : AnalyticsFetchSettles(ok)
    \/ \E ok \in BOOLEAN : AnalyticsJsonSettles(ok)

\* ------------------------------------------------------------------------
\* Init: the module state after the module is evaluated (errors.js 18-24)
\* ------------------------------------------------------------------------

Init ==
    /\ nodes = Null
    /\ adj = Null
    /\ edgeGeom = Null
    /\ nodeIds = Null
    /\ nodeLats = Null
    /\ nodeLngs = Null
    /\ cosLat = 100
    /\ loadError = "none"
    /\ log = <<>>
    /\ last = Null
    /\ request = Null
    /\ heap = HeapInit
    /\ render = RenderInit
    /\ overlay = OverlayInit
    /\ analytics = AnalyticsInit

\* ------------------------------------------------------------------------
\* SpecSweep: one graph of the sweep family is loaded, then one pair of
\* points is queried under the barrier weights of the sweep
\* ------------------------------------------------------------------------

SweepLoad ==
    /\ nodes = Null
    /\ \E data \in SweepArtifacts : Load(data)

SweepRoute ==
    /\ nodes # Null
    /\ \E call \in SweepCalls :
          /\ \A c \in DOMAIN log : c[1] = call[1] /\ c[2] = call[2]
          /\ Query(call)

SweepNext == SweepLoad \/ SweepRoute

SpecSweep == Init /\ [][SweepNext]_vars

\* ------------------------------------------------------------------------
\* Spec: loadGraph and calculateRoute called in any order
\* ------------------------------------------------------------------------

NodeCoords(id) ==
    LET i == CHOOSE j \in 1..Len(NodeTable) : NodeTable[j][1] = id
    IN  <<NodeTable[i][2], NodeTable[i][3]>>

\* a point between two nodes
Midpoint(u, v) ==
    <<(NodeCoords(u)[1] + NodeCoords(v)[1]) \div 2,
      (NodeCoords(u)[2] + NodeCoords(v)[2]) \div 2>>

\* the edge tables of Spec: the diamond; a direct edge of cost 9 beside a
\* two-hop way of costs 5 and 5; no edge at all
MainEdgeTables ==
    { DiamondEdges,
      << <<"A", "B", 10, 5>>, <<"B", "D", 10, 5>>, <<"A", "D", 10, 9>> >>,
      <<>> }

\* The geometry tables of Spec, by kind, for an edge table:
\*   forward  "u,v" holds the polyline from u over a midpoint to v
\*   reverse  "v,u" holds the polyline from v over a midpoint to u
\*   stub     "u,v" holds the single point of u
\*   repeat   "u,v" holds the point of u twice, then the point of v
\*   both     "u,v" holds the polyline from u over a midpoint to v and
\*            "v,u" holds the two points of v and u
\*   mixed    the first edge of the table has "u,v" as in forward, the
\*            second none, every later one "v,u" as in reverse
\*   mixedBack  the first edge of the table has "v,u" as in reverse, the
\*            second "u,v" as in forward, every later one none
GeomKinds == {"forward", "reverse", "stub", "repeat", "both", "mixed", "mixedBack"}

Polyline(u, v) == <<NodeCoords(u), Midpoint(u, v), NodeCoords(v)>>

\* the geometry table with "u,v" for the edges (u, v) at the indices fwd
\* and "v,u" for those at the indices rev
GeomTableAt(edges, fwd, rev) ==
    LET f == {<<edges[i][1], edges[i][2]>> : i \in fwd \cap DOMAIN edges}
        r == {<<edges[i][2], edges[i][1]>> : i \in rev \cap DOMAIN edges}
    IN  [k \in f \cup r |-> Polyline(k[1], k[2])]

GeomTable(kind, edges) ==
    LET pairs == {<<e[1], e[2]>> : e \in Range(edges)}
    IN  CASE kind = "forward" ->
               [k \in pairs |-> <<NodeCoords(k[1]), Midpoint(k[1], k[2]), NodeCoords(k[2])>>]
          [] kind = "reverse" ->
               [k \in {<<q[2], q[1]>> : q \in pairs} |->
                   <<NodeCoords(k[1]), Midpoint(k[1], k[2]), NodeCoords(k[2])>>]
          [] kind = "stub" ->
               [k \in pairs |-> <<NodeCoords(k[1])>>]
          [] kind = "repeat" ->
               [k \in pairs |-> <<NodeCoords(k[1]), NodeCoords(k[1]), NodeCoords(k[2])>>]
          [] kind = "both" ->
               [k \in pairs \cup {<<q[2], q[1]>> : q \in pairs} |->
                   IF k \in pairs
                   THEN Polyline(k[1], k[2])
                   ELSE <<NodeCoords(k[1]), NodeCoords(k[2])>>]
          [] kind = "mixed" -> GeomTableAt(edges, {1}, 3..Len(edges))
          [] kind = "mixedBack" -> GeomTableAt(edges, {2}, {1})

\* edge tables that loadGraph takes as they are: an edge of negative length
\* (on no cycle); edges from and to a node "X" that the node table lacks
NegativeEdges == << <<"A", "B", 10, 0>>, <<"B", "D", 0 - 5, 0>> >>

UnknownNodeEdges ==
    << <<"A", "X", 10, 0>>, <<"X", "D", 10, 0>>, <<"A", "D", 20, 0>> >>

\* artifacts without geometry: the edge tables above on the node table, and
\* an empty node table with and without edges
OddArtifacts ==
    {[nodes |-> Some(NodeTable), edges |-> Some(e), geom |-> Null] :
        e \in {NegativeEdges, UnknownNodeEdges}}
    \cup {[nodes |-> Some(<<>>), edges |-> Some(e), geom |-> Null] :
             e \in {<<>>, DiamondEdges}}

\* the artifacts of Spec: with and without a geometry table, and with the
\* node table or the edge table missing
Artifacts ==
    OddArtifacts \cup
    {[nodes |-> Some(NodeTable), edges |-> Some(e), geom |-> Null] :
        e \in MainEdgeTables}
    \cup {[nodes |-> Some(NodeTable), edges |-> Some(e),
           geom |-> Some(GeomTable(kind, e))] :
             e \in MainEdgeTables, kind \in GeomKinds}
    \cup {[nodes |-> Some(NodeTable), edges |-> Null, geom |-> Null],
          [nodes |-> Null, edges |-> Some(DiamondEdges), geom |-> Null]}

\* barrier weights in thousandths: 0 and 10
Weights == {0, 10000}

\* a start point outside the latitude range -90..90
InvalidPoints == {<<95, 0>>}

Calls ==
    (SweepPoints \X SweepPoints \X Weights)
    \cup (InvalidPoints \X SweepPoints \X {0})

\* loadGraph once graph.json is fetched and parsed
LoadGraph == \E data \in Artifacts : Load(data)

\* loadGraph when dataFetch or response.json() rejects: nothing is assigned
LoadGraphRejected ==
    /\ loadError' = "rejected"
    /\ UNCHANGED <<graphVars, log, last, request, pageVars>>

CalculateRoute == \E call \in Calls : Query(call)

Next == LoadGraph \/ LoadGraphRejected \/ CalculateRoute

Spec == Init /\ [][Next]_vars

\* ------------------------------------------------------------------------
\* SpecRouting: the calculate button of the routing panel
\* (routing.js 200-240, the same handler in theme.js 225-265)
\* ------------------------------------------------------------------------

\* the positions of the tolerance slider
SliderValues == 0..100

\* the text of a coordinate field after parseFloat: Null when it parses to
\* NaN, else Some(number)
LatFields == {Null} \cup {Some(p[1]) : p \in SweepPoints}

LngFields == {Null, Some(0)}

isNaN(field) == field = Null

\* barrierWeight of the handler, in thousandths: (100 - tolerance) / 5
barrierWeightOf(tolerance) == ((100 - tolerance) * 1000) \div 5

\* the click handler up to the request it posts; with a field that is not
\* a number it shows a status and returns before any request
CalculateClick(startLat, startLng, endLat, endLng, tolerance) ==
    /\ request' =
          IF isNaN(startLat) \/ isNaN(startLng) \/ isNaN(endLat) \/ isNaN(endLng)
          THEN request
          ELSE Some([tolerance |-> tolerance,
                     body |-> [start_lat |-> Val(startLat),
                               start_lng |-> Val(startLng),
                               end_lat |-> Val(endLat),
                               end_lng |-> Val(endLng),
                               barrier_weight |-> barrierWeightOf(tolerance)]])
    /\ UNCHANGED <<engineVars, pageVars>>

RoutingNext ==
    \E startLat \in LatFields, startLng \in LngFields,
       endLat \in LatFields, endLng \in LngFields, tolerance \in SliderValues :
          CalculateClick(startLat, startLng, endLat, endLng, tolerance)

SpecRouting == Init /\ [][RoutingNext]_vars

\* SpecHeap: pushes and pops on one MinHeap, in any order
SpecHeap == Init /\ [][HeapNext]_vars

SpecRender == Init /\ [][RenderNext]_vars

SpecOverlay == Init /\ [][OverlayNext]_vars

SpecAnalytics == Init /\ [][AnalyticsNext]_vars

\* ------------------------------------------------------------------------
\* SpecNearest: one node table without edges is loaded, then points are
\* looked up by calls from a point to itself
\* ------------------------------------------------------------------------

\* a node table has up to MaxNodes nodes
MaxNodes == 3

NearestIds == <<"A", "B", "C", "D", "E">>

\* where a node can lie, <<lat, lng>>
NearestCoords == {<<60, 0>>, <<60, 4>>, <<62, 0>>, <<62, 2>>}

\* the node tables of n nodes, in the order of NearestIds
RECURSIVE NearestTables(_)
NearestTables(n) ==
    IF n = 0
    THEN {<<>>}
    ELSE {Append(t, <<NearestIds[n], c[1], c[2]>>) :
             t \in NearestTables(n - 1), c \in NearestCoords}

\* the tables whose mean latitude is a whole degree
NearestArtifacts ==
    {[nodes |-> Some(t), edges |-> Some(<<>>), geom |-> Null] :
        t \in {t \in UNION {NearestTables(n) : n \in 1..MaxNodes} :
                  SumLats(t, 1) % Len(t) = 0}}

\* the points looked up
NearestPoints == {60, 61, 62} \X {0, 2, 4}

NearestLoad ==
    /\ nodes = Null
    /\ \E data \in NearestArtifacts : Load(data)

NearestRoute ==
    /\ nodes # Null
    /\ \E p \in NearestPoints : Query(<<p, p, 0>>)

NearestNext == NearestLoad \/ NearestRoute

SpecNearest == Init /\ [][NearestNext]_vars

\* ------------------------------------------------------------------------
\* Reference definitions for the properties
\* ------------------------------------------------------------------------

Min(S) == CHOOSE x \in S : \A y \in S : x <= y

\* the loaded edges <<u, v, length, accCost>>
LoadedEdges ==
    UNION {{<<u, e[1], e[2], e[3]>> : e \in Range(Val(adj)[u])} : u \in DOMAIN Val(adj)}

\* Bellman-Ford: D maps a node to the least weight of a path from the source
\* found so far, or to -1 if none is found; one more round of relaxing all edges
BellmanFord_round(D, bw) ==
    [v \in DOMAIN D |->
        LET via == {D[e[1]] + dijkstra_w(e[3], e[4], bw) :
                       e \in {x \in LoadedEdges : x[2] = v /\ D[x[1]] >= 0}}
            all == via \cup (IF D[v] >= 0 THEN {D[v]} ELSE {})
        IN  IF all = {} THEN 0 - 1 ELSE Min(all)]

RECURSIVE BellmanFord(_, _, _)
BellmanFord(D, bw, rounds) ==
    IF rounds = 0 THEN D ELSE BellmanFord(BellmanFord_round(D, bw), bw, rounds - 1)

\* the least total weight of a directed path from s to d, -1 if there is none
MinWeight(s, d, bw) ==
    LET N == DOMAIN Val(adj)
    IN  BellmanFord([v \in N |-> IF v = s THEN 0 ELSE 0 - 1], bw, Cardinality(N))[d]

Reachable(s, d) == MinWeight(s, d, 0) >= 0

\* the weight of a path, taking the minimum-weight parallel edge on each hop
PathWeight(path, bw) ==
    LET hop(i) == Min({dijkstra_w(e[3], e[4], bw) :
                          e \in {x \in LoadedEdges : x[1] = path[i] /\ x[2] = path[i + 1]}})
        sum[i \in 1..Len(path)] == IF i = Len(path) THEN 0 ELSE hop(i) + sum[i + 1]
    IN  IF Len(path) = 0 THEN 0 ELSE sum[1]

\* every hop of the path is a loaded edge
IsPath(path) ==
    \A i \in 1..Len(path) - 1 :
        \E e \in LoadedEdges : e[1] = path[i] /\ e[2] = path[i + 1]

\* the latest call returned a result
Returned == last # Null /\ last.outcome.error = "none"

NoPathError == "No path found between the specified points"

\* ------------------------------------------------------------------------
\* Properties of the search (SpecSweep)
\* ------------------------------------------------------------------------

\* C1: whenever the destination node is reachable from the start node, each
\* of the two searches of the call (barrier weight bw, and 0) returns a path
\* from the start node to the destination node along loaded edges whose total
\* weight is the least total weight of any directed path between them.
C1_MinimumWeightPath ==
    last # Null =>
        LET o == last.outcome
            bw == last.call[3]
        IN  Reachable(o.startNode, o.endNode) =>
               /\ o.accessiblePath # Null
               /\ o.standardPath # Null
               /\ IsPath(Val(o.accessiblePath))
               /\ IsPath(Val(o.standardPath))
               /\ PathWeight(Val(o.accessiblePath), bw)
                     = MinWeight(o.startNode, o.endNode, bw)
               /\ PathWeight(Val(o.standardPath), 0)
                     = MinWeight(o.startNode, o.endNode, 0)

\* a call with bw = 10 whose accessible path takes two hops although a
\* direct edge, heavier under bw, joins its ends
C1_Witness ==
    /\ Returned
    /\ last.call[3] = 10000
    /\ Len(Val(last.outcome.accessiblePath)) = 3
    /\ \E e \in LoadedEdges :
          /\ e[1] = last.outcome.startNode
          /\ e[2] = last.outcome.endNode
          /\ dijkstra_w(e[3], e[4], 10000)
                > PathWeight(Val(last.outcome.accessiblePath), 10000)

\* C2: a call whose two points snap to the same node a returns the
\* single-node path [a] for both searches, with length 0, barrier cost 0 and
\* barrier count 0; it does not end in the no-path error.
C2_SameNodeZeroPath ==
    (last # Null /\ last.outcome.startNode = last.outcome.endNode) =>
        LET o == last.outcome
        IN  /\ o.error = "none"
            /\ o.accessiblePath = Some(<<o.startNode>>)
            /\ o.standardPath = Some(<<o.startNode>>)
            /\ Val(o.ret).stats =
                  [accessible_length |-> 0, accessible_barrier_cost |-> 0,
                   accessible_barrier_count |-> 0, standard_length |-> 0,
                   standard_barrier_cost |-> 0, standard_barrier_count |-> 0]

\* a -> a with bw = 10 on a node that has outgoing edges and lies on a cycle
C2_Witness ==
    /\ Returned
    /\ last.outcome.startNode = "A"
    /\ last.outcome.endNode = "A"
    /\ last.call[3] = 10000
    /\ \E e \in LoadedEdges : e[1] = "A" /\ e[2] = "D"
    /\ \E e \in LoadedEdges : e[1] = "D" /\ e[2] = "A"

\* C3: in every result of a call with bw > 0, the total weight the standard
\* search (bw = 0) ends with at the destination equals the recomputed
\* standard length, and standard_length <= accessible_length.
C3_StandardIsShortest ==
    (Returned /\ last.call[3] > 0) =>
        LET o == last.outcome
            stats == Val(o.ret).stats
        IN  /\ dijkstra_final(o.startNode, o.endNode, 0).dist[o.endNode]
                  = stats.standard_length * 100000
            /\ stats.standard_length <= stats.accessible_length

\* a result whose accessible path is strictly longer than the standard one
C3_Witness ==
    /\ Returned
    /\ last.call[3] >= BwThreshold
    /\ Val(last.outcome.ret).stats.standard_length
          < Val(last.outcome.ret).stats.accessible_length

\* the calls on record that returned a result: <<barrier weight, outcome>>
ReturnedCalls ==
    {<<c[3], log[c]>> : c \in {x \in DOMAIN log : log[x].error = "none"}}
       \cup (IF Returned THEN {<<last.call[3], last.outcome>>} ELSE {})

\* the pairs of calls on record between the same two nodes, the first with
\* the lower (or the same) barrier weight
WeightOrderedPairs ==
    {p \in ReturnedCalls \X ReturnedCalls :
        /\ p[1][1] <= p[2][1]
        /\ p[1][2].startNode = p[2][2].startNode
        /\ p[1][2].endNode = p[2][2].endNode}

\* the sum of accessibility_cost^1.5 (in hundredths) over the edges that
\* computeRouteStats selects on the hops of the path
PathPenalty(path, bw) ==
    LET sum[i \in 1..Len(path)] ==
            IF i = Len(path)
            THEN 0
            ELSE Math_pow15(Val(computeRouteStats_hop(path, i, bw))[3]) + sum[i + 1]
    IN  IF Len(path) = 0 THEN 0 ELSE sum[1]

\* C4 as stated: of two calls between the same nodes, the one with the
\* greater barrier weight reports the lower (or the same) barrier cost.
C4_CostMonotone ==
    \A p \in WeightOrderedPairs :
        Val(p[2][2].ret).stats.accessible_barrier_cost
           <= Val(p[1][2].ret).stats.accessible_barrier_cost

\* C4 amended: of two calls between the same nodes, the accessible path of
\* the one with the greater barrier weight has the lower (or the same) total
\* penalty, the sum of accessibility_cost^1.5 over its selected edges.
C4_PenaltyMonotone ==
    \A p \in WeightOrderedPairs :
        PathPenalty(Val(p[2][2].accessiblePath), p[2][1])
           <= PathPenalty(Val(p[1][2].accessiblePath), p[1][1])

\* two calls, bw = 0 then bw = 10: the penalty falls while the summed cost rises
C4_Witness ==
    \E p \in WeightOrderedPairs :
        /\ p[1][1] = 0
        /\ p[2][1] = 10000
        /\ PathPenalty(Val(p[2][2].accessiblePath), p[2][1])
              < PathPenalty(Val(p[1][2].accessiblePath), p[1][1])
        /\ Val(p[2][2].ret).stats.accessible_barrier_cost
              > Val(p[1][2].ret).stats.accessible_barrier_cost

\* C5: of two calls between the same nodes, the one with the greater barrier
\* weight reports the greater (or the same) accessible length.
C5_LengthMonotone ==
    \A p \in WeightOrderedPairs :
        Val(p[1][2].ret).stats.accessible_length
           <= Val(p[2][2].ret).stats.accessible_length

\* two calls with bw below and above the threshold; the length grows
C5_Witness ==
    \E p \in WeightOrderedPairs :
        /\ p[1][1] < BwThreshold
        /\ p[2][1] >= BwThreshold
        /\ Val(p[1][2].ret).stats.accessible_length
              < Val(p[2][2].ret).stats.accessible_length

\* C7: a call between two distinct nodes, the second not reachable from the
\* first, ends with the no-path error: the search returns null, nothing is
\* returned to the caller and no other error is raised.
C7_NoPathFound ==
    (/\ last # Null
     /\ last.outcome.startNode # last.outcome.endNode
     /\ ~Reachable(last.outcome.startNode, last.outcome.endNode)) =>
        /\ last.outcome.error = NoPathError
        /\ last.outcome.ret = Null
        /\ last.outcome.accessiblePath = Null
        /\ dijkstra(last.outcome.startNode, last.outcome.endNode, 0) = Null

\* a no-path call from a node with outgoing edges, so the search expands nodes
C7_Witness ==
    /\ last # Null
    /\ last.outcome.error = NoPathError
    /\ last.call[3] = 10000
    /\ Len(Val(adj)[last.outcome.startNode]) >= 2

\* the adjacency loadGraph builds of the diamond
DiamondAdj ==
    [A |-> << <<"B", 10, 0>>, <<"C", 10, 5>> >>,
     B |-> << <<"D", 10, 0>> >>,
     C |-> << <<"D", 10, 0>> >>,
     D |-> <<>>]

\* C8: on the diamond, a call from A to D with bw = 0 or bw >= 0.01 finds
\* the path A, B, D with length 20, barrier cost 0 and barrier count 0.
C8_Diamond ==
    (/\ last # Null
     /\ adj = Some(DiamondAdj)
     /\ last.outcome.startNode = "A"
     /\ last.outcome.endNode = "D"
     /\ (last.call[3] = 0 \/ last.call[3] >= BwThreshold)) =>
        /\ last.outcome.error = "none"
        /\ last.outcome.accessiblePath = Some(<<"A", "B", "D">>)
        /\ Val(last.outcome.ret).stats.accessible_length = 20
        /\ Val(last.outcome.ret).stats.accessible_barrier_cost = 0
        /\ Val(last.outcome.ret).stats.accessible_barrier_count = 0

\* the diamond queried from A to D with bw = 0, after a query with bw = 10
C8_Witness ==
    /\ Returned
    /\ adj = Some(DiamondAdj)
    /\ last.outcome.startNode = "A"
    /\ last.outcome.endNode = "D"
    /\ last.call[3] = 0
    /\ \E c \in DOMAIN log : c[3] = 10000

\* the weight of the README: length + bw * accessibility_cost^2 from 0.01 on
QuadraticWeight(length, accCost, bw) ==
    IF bw < BwThreshold
    THEN length * 100000
    ELSE length * 100000 + bw * (accCost * accCost * 100)

\* C10: for the barrier weight of the call, the weight the search gives to
\* every loaded edge, and the weight the stats recomputation gives it, is
\* length + bw * accessibility_cost^2 when bw >= 0.01 and length below.
C10_QuadraticPenalty ==
    last # Null =>
        \A e \in LoadedEdges :
            /\ dijkstra_w(e[3], e[4], last.call[3])
                  = QuadraticWeight(e[3], e[4], last.call[3])
            /\ computeRouteStats_w(e[3], e[4], last.call[3])
                  = QuadraticWeight(e[3], e[4], last.call[3])

\* ------------------------------------------------------------------------
\* Properties of calculateRoute (Spec)
\* ------------------------------------------------------------------------

ReturnedRoutes ==
    {<<Val(last.outcome.accessiblePath), Val(last.outcome.ret).accessible_route>>,
     <<Val(last.outcome.standardPath), Val(last.outcome.ret).standard_route>>}

\* every hop (u, v) of the path has geometry stored under "u,v"
ForwardStored(path) ==
    \A i \in 1..Len(path) - 1 : <<path[i], path[i + 1]>> \in DOMAIN Val(edgeGeom)

NoRepeatedPoint(cs) == \A j \in 1..Len(cs) - 1 : cs[j] # cs[j + 1]

\* the route starts on the first node of the path (the snapped start), ends
\* on its last node (the snapped end) and repeats no point
RoundTrip(path, route) ==
    /\ route # Null
    /\ Len(Val(route)) > 0
    /\ Val(route)[1] = LngLat(Val(nodes)[path[1]])
    /\ Val(route)[1] = <<Val(last.outcome.ret).snapped_start.lng,
                         Val(last.outcome.ret).snapped_start.lat>>
    /\ Val(route)[Len(Val(route))] = LngLat(Val(nodes)[path[Len(path)]])
    /\ Val(route)[Len(Val(route))] = <<Val(last.outcome.ret).snapped_end.lng,
                                       Val(last.outcome.ret).snapped_end.lat>>
    /\ NoRepeatedPoint(Val(route))

\* the geometry stored for every hop (u, v) runs from the point of u to the
\* point of v, has at least two points and repeats no point
ForwardWellFormed(path) ==
    \A i \in 1..Len(path) - 1 :
        LET g == Val(edgeGeom)[<<path[i], path[i + 1]>>]
        IN  /\ Len(g) >= 2
            /\ g[1] = Val(nodes)[path[i]]
            /\ g[Len(g)] = Val(nodes)[path[i + 1]]
            /\ NoRepeatedPoint(g)

\* C9 as stated: for a returned path of at least two nodes whose hops all
\* have stored forward geometry, the route starts on the snapped start, ends
\* on the snapped end and has no two equal consecutive points.
C9_RoundTrip ==
    Returned =>
        \A r \in ReturnedRoutes :
            (Len(r[1]) >= 2 /\ ForwardStored(r[1])) => RoundTrip(r[1], r[2])

\* C9 amended: the same, for paths whose stored forward geometries each run
\* from the point of u to the point of v with at least two points and no two
\* equal consecutive points.
C9_RoundTripWellFormed ==
    Returned =>
        \A r \in ReturnedRoutes :
            (Len(r[1]) >= 2 /\ ForwardStored(r[1]) /\ ForwardWellFormed(r[1]))
                => RoundTrip(r[1], r[2])

\* a two-hop accessible path over well-formed forward geometry
C9_Witness ==
    /\ Returned
    /\ Len(Val(last.outcome.accessiblePath)) = 3
    /\ ForwardStored(Val(last.outcome.accessiblePath))
    /\ ForwardWellFormed(Val(last.outcome.accessiblePath))
    /\ Len(Val(Val(last.outcome.ret).accessible_route)) = 5

\* ------------------------------------------------------------------------
\* Properties of the routing panel, under SpecRouting
\* ------------------------------------------------------------------------

\* C11: the route request carries barrier_weight = (100 - t) / 10 for the
\* slider position t (in thousandths: (100 - t) * 100), so that t = 0 gives
\* 10 and t = 100 gives 0.
C11_SliderTenth ==
    request # Null =>
        Val(request).body.barrier_weight = (100 - Val(request).tolerance) * 100

\* ------------------------------------------------------------------------
\* Properties of the error handling, under Spec
\* ------------------------------------------------------------------------

\* some hop of the path has, in the adjacency of its first node, an edge to
\* its second node whose weight under bw is negative
NegativeHop(path, bw) ==
    \E i \in 1..Len(path) - 1 :
        /\ path[i] \in DOMAIN Val(adj)
        /\ \E e \in Range(Val(adj)[path[i]]) :
              e[1] = path[i + 1] /\ dijkstra_w(e[2], e[3], bw) < 0

\* C12: the search rejects an edge of negative computed weight with a
\* configuration error, so no call returns a path that the search took over
\* such an edge.
C12_NegativeRejected ==
    Returned =>
        /\ ~NegativeHop(Val(last.outcome.accessiblePath), last.call[3])
        /\ ~NegativeHop(Val(last.outcome.standardPath), 0)

\* C13: on a loaded graph of zero nodes a route query fails with the
\* EmptyGraph error of the nearest-node lookup, before any search runs.
C13_EmptyGraph ==
    (last # Null /\ nodes # Null /\ adj # Null /\ Val(nodeIds) = <<>>) =>
        /\ last.outcome.error = "EmptyGraph"
        /\ last.outcome.accessiblePath = Null

\* C14: loadGraph fails on an edge that names a node the node table lacks,
\* so after a load that succeeded every adjacency entry u -> v has u and v
\* in the node table.
C14_EdgesKnown ==
    (loadError = "none" /\ nodes # Null /\ adj # Null) =>
        \A e \in LoadedEdges :
            e[1] \in DOMAIN Val(nodes) /\ e[2] \in DOMAIN Val(nodes)

\* C15: a loadGraph call that fails leaves the graph state as it was.
C15_FailedLoadKeepsState ==
    [][loadError' # "none" => graphVars' = graphVars]_vars

ValidCoordinate(p) == p[1] \in (0 - 90)..90 /\ p[2] \in (0 - 180)..180

\* C16: on a loaded graph with nodes, a query with a coordinate outside the
\* latitude or longitude range is rejected with InvalidCoordinate before
\* lookup and search: no node is snapped to and no path is returned.
C16_InvalidCoordinate ==
    (/\ last # Null
     /\ nodes # Null
     /\ adj # Null
     /\ Val(nodeIds) # <<>>
     /\ ~(ValidCoordinate(last.call[1]) /\ ValidCoordinate(last.call[2]))) =>
        /\ last.outcome.error = "InvalidCoordinate"
        /\ last.outcome.accessiblePath = Null

\* ------------------------------------------------------------------------
\* Properties of calculateRoute and its parts, under Spec and SpecSweep
\* ------------------------------------------------------------------------

\* C17: a calculateRoute call, returning or throwing, leaves nodes, adj,
\* edgeGeom, nodeIds, nodeLats, nodeLngs and cosLat as they were (a step that
\* leaves a latest call behind is a call or a rejected fetch; a load that
\* assigns leaves none).
C17_QueryFrame ==
    [][last' # Null => graphVars' = graphVars]_vars

\* on a loaded graph the logged call returned a path of several nodes and
\* the latest call threw for want of a path
C17_Witness ==
    /\ last # Null
    /\ adj # Null
    /\ last.outcome.error = NoPathError
    /\ \E c \in DOMAIN log :
          /\ log[c].error = "none"
          /\ Len(Val(log[c].accessiblePath)) >= 2

\* C18: under a barrier weight below 0.01 (0 and the values between) the
\* accessible and the standard route are the same: the same node sequence,
\* the same geometry and equal statistics.
C18_BelowThresholdSame ==
    (Returned /\ last.call[3] < BwThreshold) =>
        LET o == last.outcome
            stats == Val(o.ret).stats
        IN  /\ o.accessiblePath = o.standardPath
            /\ Val(o.ret).accessible_route = Val(o.ret).standard_route
            /\ stats.accessible_length = stats.standard_length
            /\ stats.accessible_barrier_cost = stats.standard_barrier_cost
            /\ stats.accessible_barrier_count = stats.standard_barrier_count

\* a call under 0.005 returned a path over a barrier, on a graph where the
\* logged call under a weight of at least 0.01 returned another path
C18_Witness ==
    /\ Returned
    /\ last.call[3] = 5
    /\ Val(last.outcome.ret).stats.accessible_barrier_cost > 0
    /\ \E c \in DOMAIN log :
          /\ c[3] >= BwThreshold
          /\ log[c].error = "none"
          /\ log[c].accessiblePath # last.outcome.accessiblePath

\* the squared planar distance of node i from the point p, with the
\* longitude difference scaled by cosLat
PlanarDist(i, p) ==
    LET dLat == (Val(nodeLats)[i] - p[1]) * 100
        dLng == (Val(nodeLngs)[i] - p[2]) * cosLat
    IN  dLat * dLat + dLng * dLng

\* node i is as near to p as any node, and nearer than every node before it
FirstNearest(i, p) ==
    /\ \A j \in DOMAIN Val(nodeIds) : PlanarDist(i, p) <= PlanarDist(j, p)
    /\ \A j \in 1..(i - 1) : PlanarDist(j, p) > PlanarDist(i, p)

\* C19: on a graph with nodes, findNearestNode returns a node of minimal
\* squared planar distance dLat^2 + (dLng * cosLat)^2 from the query point,
\* and among equally near nodes the first in the order of the node table.
C19_NearestFirst ==
    (last # Null /\ nodes # Null /\ Val(nodeIds) # <<>>) =>
        \E i \in DOMAIN Val(nodeIds) :
            /\ Val(nodeIds)[i] = last.outcome.startNode
            /\ FirstNearest(i, last.call[1])

\* the returned node is not the first of the table and a later node is as
\* near
C19_Witness ==
    /\ last # Null
    /\ nodes # Null
    /\ \E i \in DOMAIN Val(nodeIds) :
          LET p == last.call[1]
          IN  /\ Val(nodeIds)[i] = last.outcome.startNode
              /\ i > 1
              /\ \E j \in DOMAIN Val(nodeIds) :
                    j > i /\ PlanarDist(j, p) = PlanarDist(i, p)

\* the points of the hop from u to v in the order travelled, as <<lat, lng>>:
\* the geometry stored under "u,v", else the one stored under "v,u" read
\* backwards, else the points of u and v
HopPoints(u, v) ==
    IF <<u, v>> \in DOMAIN Val(edgeGeom)
    THEN Val(edgeGeom)[<<u, v>>]
    ELSE IF <<v, u>> \in DOMAIN Val(edgeGeom)
    THEN Reverse(Val(edgeGeom)[<<v, u>>])
    ELSE <<Val(nodes)[u], Val(nodes)[v]>>

\* the points of hop i of the path as [lng, lat], without the first one on
\* every hop but the first
HopEmitted(path, i) ==
    LET pts == HopPoints(path[i], path[i + 1])
        from == IF i = 1 THEN 1 ELSE 2
    IN  [j \in 1..(IF Len(pts) >= from THEN Len(pts) - from + 1 ELSE 0) |->
            <<pts[j + from - 1][2], pts[j + from - 1][1]>>]

\* the route is the points of hops 1..n of the path, one hop after the other
RECURSIVE EmittedUpTo(_, _)
EmittedUpTo(path, n) ==
    IF n = 0 THEN <<>> ELSE EmittedUpTo(path, n - 1) \o HopEmitted(path, n)

\* C20: for a path of at least two nodes pathToGeoJSON emits, hop by hop,
\* the stored forward geometry, else the stored reverse geometry backwards,
\* else the straight segment: all points on the first hop, all but the first
\* on later hops, every point as [lng, lat]; a path of fewer than two nodes
\* gives no geometry.
C20_HopByHop ==
    Returned =>
        \A r \in ReturnedRoutes :
            IF Len(r[1]) >= 2
            THEN r[2] = Some(EmittedUpTo(r[1], Len(r[1]) - 1))
            ELSE r[2] = Null

\* a returned two-hop path over a table that stores both keys for its hops
C20_Witness ==
    /\ Returned
    /\ LET path == Val(last.outcome.accessiblePath)
       IN  /\ Len(path) = 3
           /\ \A i \in 1..2 :
                 /\ <<path[i], path[i + 1]>> \in DOMAIN Val(edgeGeom)
                 /\ <<path[i + 1], path[i]>> \in DOMAIN Val(edgeGeom)
           /\ Len(Val(Val(last.outcome.ret).accessible_route)) = 5

\* ------------------------------------------------------------------------
\* Properties of the statistics and of the search, under SpecSweep
\* ------------------------------------------------------------------------

\* the indices of the parallel edges u -> v in the adjacency list of u
ParallelEdges(u, v) ==
    {i \in DOMAIN Val(adj)[u] : Val(adj)[u][i][1] = v}

EdgeWeightAt(u, i, bw) ==
    computeRouteStats_w(Val(adj)[u][i][2], Val(adj)[u][i][3], bw)

\* the first index, in adjacency order, of a u -> v edge of minimum weight
FirstMinEdge(u, v, bw) ==
    CHOOSE i \in ParallelEdges(u, v) :
        \A j \in ParallelEdges(u, v) :
            /\ EdgeWeightAt(u, i, bw) <= EdgeWeightAt(u, j, bw)
            /\ j < i => EdgeWeightAt(u, j, bw) > EdgeWeightAt(u, i, bw)

\* length, cost and barrier count summed over the first-minimum edges of
\* hops 1..n of the path
RECURSIVE SelectedTotals(_, _, _)
SelectedTotals(path, n, bw) ==
    IF n = 0
    THEN [length |-> 0, barrier_cost |-> 0, barrier_count |-> 0]
    ELSE LET t == SelectedTotals(path, n - 1, bw)
             e == Val(adj)[path[n]][FirstMinEdge(path[n], path[n + 1], bw)]
         IN  [length |-> t.length + e[2],
              barrier_cost |-> t.barrier_cost + e[3],
              barrier_count |-> t.barrier_count + (IF e[3] > 0 THEN 1 ELSE 0)]

\* C21: computeRouteStats selects on each hop the first edge in adjacency
\* order among the parallel edges of minimum computed weight, and returns
\* the sum of their lengths, the sum of their costs and the number of them
\* with a cost greater than zero.
C21_StatsSelection ==
    Returned =>
        LET o == last.outcome
            stats == Val(o.ret).stats
            a == SelectedTotals(Val(o.accessiblePath),
                                Len(Val(o.accessiblePath)) - 1, last.call[3])
            b == SelectedTotals(Val(o.standardPath),
                                Len(Val(o.standardPath)) - 1, 0)
        IN  /\ stats.accessible_length = a.length
            /\ stats.accessible_barrier_cost = a.barrier_cost
            /\ stats.accessible_barrier_count = a.barrier_count
            /\ stats.standard_length = b.length
            /\ stats.standard_barrier_cost = b.barrier_cost
            /\ stats.standard_barrier_count = b.barrier_count

\* a returned path has a hop with two parallel edges of equal weight and
\* different costs
C21_Witness ==
    /\ Returned
    /\ LET path == Val(last.outcome.accessiblePath)
       IN  \E n \in 1..Len(path) - 1 :
              \E i, j \in ParallelEdges(path[n], path[n + 1]) :
                 /\ i < j
                 /\ EdgeWeightAt(path[n], i, last.call[3])
                       = EdgeWeightAt(path[n], j, last.call[3])
                 /\ Val(adj)[path[n]][i][3] # Val(adj)[path[n]][j][3]

\* ------------------------------------------------------------------------
\* Properties of the loaded adjacency, under Spec
\* ------------------------------------------------------------------------

\* the artifacts whose load returns and leaves the graph state of this state
LoadedFrom ==
    {data \in Artifacts :
        LET g == loadGraph(data)
        IN  /\ g.error = "none"
            /\ g.nodes = nodes
            /\ g.adj = adj
            /\ g.edgeGeom = edgeGeom}

\* the entries <<v, length, cost>> of the artifact's edges from u, in the
\* order of the edge table
EntriesFrom(data, u) ==
    LET es == SelectSeq(Val(data.edges), LAMBDA e : e[1] = u)
    IN  [i \in 1..Len(es) |-> <<es[i][2], es[i][3], es[i][4]>>]

\* every hop of the path is an edge u -> v of the artifact
HopsInArtifact(data, path) ==
    \A i \in 1..Len(path) - 1 :
        \E e \in Range(Val(data.edges)) : e[1] = path[i] /\ e[2] = path[i + 1]

\* C22: the adjacency list of a node u holds one entry for each artifact
\* edge from u and nothing else (no entry under the to-node of an edge), so
\* no returned path has a hop (u, v) without an artifact edge from u to v.
C22_NoReverseEdge ==
    \A data \in LoadedFrom :
        /\ \A u \in DOMAIN Val(adj) : Val(adj)[u] = EntriesFrom(data, u)
        /\ Returned =>
              /\ HopsInArtifact(data, Val(last.outcome.accessiblePath))
              /\ HopsInArtifact(data, Val(last.outcome.standardPath))

\* a call from the to-node of an edge to its from-node found no path, with
\* the geometry of that edge stored
C22_Witness ==
    /\ last # Null
    /\ LoadedFrom # {}
    /\ last.outcome.error = NoPathError
    /\ \E e \in LoadedEdges :
          /\ e[1] = last.outcome.endNode
          /\ e[2] = last.outcome.startNode
          /\ <<e[1], e[2]>> \in DOMAIN Val(edgeGeom)

\* ------------------------------------------------------------------------
\* Properties of the search loop, under SpecSweep (weights are not negative)
\* ------------------------------------------------------------------------

\* the two searches of the latest call, as <<startNode, endNode, bw>>
LastSearches ==
    {<<last.outcome.startNode, last.outcome.endNode, last.call[3]>>,
     <<last.outcome.startNode, last.outcome.endNode, 0>>}

SearchDiscipline(st, s, d, bw) ==
    /\ \A i \in DOMAIN st.expanded : st.expanded[i].d <= st.expanded[i].best
    /\ \A i, j \in DOMAIN st.expanded :
          i < j => st.expanded[i].u # st.expanded[j].u
    /\ \A k \in DOMAIN st.pushed :
          \/ st.pushed[k].old = Null
          \/ st.pushed[k].newDist < Val(st.pushed[k].old)
    /\ st.found # Null =>
          /\ Val(st.found) = st.dist[d]
          /\ Val(st.found) = MinWeight(s, d, bw)

\* C23: a popped entry (d, u) has its edges relaxed only if d is not greater
\* than the best-known distance of u; each node is expanded at most once
\* per search; an entry is pushed only on a strict improvement of its
\* node's best-known distance; the first popped entry of the destination
\* carries its final distance.
C23_StaleSkipped ==
    (last # Null /\ nodes # Null /\ adj # Null) =>
        \A q \in LastSearches :
            SearchDiscipline(dijkstra_final(q[1], q[2], q[3]), q[1], q[2], q[3])

\* a search of the latest call passed over a stale entry, pushed an entry
\* that improved on an earlier one and broke on the destination
C23_Witness ==
    /\ last # Null
    /\ nodes # Null
    /\ \E q \in LastSearches :
          LET st == dijkstra_final(q[1], q[2], q[3])
          IN  /\ Len(st.skipped) >= 1
              /\ \E k \in DOMAIN st.pushed : st.pushed[k].old # Null
              /\ st.found # Null
              /\ Len(st.expanded) >= 2

\* the weights of the edges computeRouteStats selects on hops 1..n, summed
RECURSIVE SelectedWeight(_, _, _)
SelectedWeight(path, n, bw) ==
    IF n = 0
    THEN 0
    ELSE SelectedWeight(path, n - 1, bw)
            + Val(computeRouteStats_hop(path, n, bw))[1]

\* C24: for a path returned by dijkstra(s, d, bw) the weights of the edges
\* that computeRouteStats selects under the same bw sum to the distance
\* dist[d] of the search.
C24_StatsPriceTheSearch ==
    Returned =>
        /\ SelectedWeight(Val(last.outcome.accessiblePath),
                          Len(Val(last.outcome.accessiblePath)) - 1, last.call[3])
              = dijkstra_final(last.outcome.startNode, last.outcome.endNode,
                               last.call[3]).dist[last.outcome.endNode]
        /\ SelectedWeight(Val(last.outcome.standardPath),
                          Len(Val(last.outcome.standardPath)) - 1, 0)
              = dijkstra_final(last.outcome.startNode, last.outcome.endNode,
                               0).dist[last.outcome.endNode]

\* a returned two-hop path under a weight of at least 0.01 with a barrier
\* on it and parallel edges on its first hop
C24_Witness ==
    /\ Returned
    /\ last.call[3] >= BwThreshold
    /\ LET path == Val(last.outcome.accessiblePath)
       IN  /\ Len(path) = 3
           /\ Cardinality(ParallelEdges(path[1], path[2])) = 2
           /\ Val(last.outcome.ret).stats.accessible_barrier_cost > 0

\* ------------------------------------------------------------------------
\* Properties of the returned paths, under Spec
\* ------------------------------------------------------------------------

NonNegativeEdges == \A e \in LoadedEdges : e[3] >= 0 /\ e[4] >= 0

\* the path runs from s to d over known nodes, repeats none and has an
\* adjacency entry for every consecutive pair
WellFormedPath(path, s, d) ==
    /\ Len(path) >= 1
    /\ path[1] = s
    /\ path[Len(path)] = d
    /\ \A i, j \in DOMAIN path : i # j => path[i] # path[j]
    /\ \A i \in DOMAIN path : path[i] \in DOMAIN Val(nodes)
    /\ \A i \in 1..Len(path) - 1 :
          /\ path[i] \in DOMAIN Val(adj)
          /\ \E e \in Range(Val(adj)[path[i]]) : e[1] = path[i + 1]

\* the snapped points of the result are the points of the path's ends
SnappedAtEnds(path, ret) ==
    /\ ret.snapped_start = [lat |-> Val(nodes)[path[1]][1],
                            lng |-> Val(nodes)[path[1]][2]]
    /\ ret.snapped_end = [lat |-> Val(nodes)[path[Len(path)]][1],
                          lng |-> Val(nodes)[path[Len(path)]][2]]

\* C25: on a loaded graph without negative weights every path that dijkstra
\* returns for (s, d) starts with s, ends with d, repeats no node, holds
\* only nodes of the node table and has an adjacency entry for every
\* consecutive pair; both paths of a calculateRoute result start and end at
\* the nodes whose points are returned as snapped_start and snapped_end.
C25_PathWellFormed ==
    (last # Null /\ nodes # Null /\ adj # Null /\ NonNegativeEdges) =>
        \A p \in {last.outcome.accessiblePath, last.outcome.standardPath} :
            p # Null =>
                /\ WellFormedPath(Val(p), last.outcome.startNode,
                                  last.outcome.endNode)
                /\ Returned => SnappedAtEnds(Val(p), Val(last.outcome.ret))

\* ------------------------------------------------------------------------
\* Properties of MinHeap, under SpecHeap
\* ------------------------------------------------------------------------

\* C30: after any pushes and pops every entry's priority is at least its
\* parent's; pop returns an entry of minimal priority among the entries in
\* the heap and removes that entry alone, push adds one entry, and size is
\* the number of pushes less the number of pops.
C30_HeapOrder ==
    /\ \A i \in 2..Len(heap.data) : heap.data[i][1] >= heap.data[i \div 2][1]
    /\ MinHeap_size(heap.data) = heap.pushes - heap.pops
    /\ heap.op # Null =>
          LET op == Val(heap.op)
          IN  IF op.kind = "pop"
              THEN /\ op.entry \in Range(op.before)
                   /\ \A e \in Range(op.before) : op.entry[1] <= e[1]
                   /\ Range(heap.data) = Range(op.before) \ {op.entry}
                   /\ Len(heap.data) = Len(op.before) - 1
              ELSE /\ Range(heap.data) = Range(op.before) \cup {op.entry}
                   /\ Len(heap.data) = Len(op.before) + 1

\* a pop from a heap of five entries whose root had a right child lighter
\* than its left child
C30_Witness ==
    /\ heap.op # Null
    /\ Val(heap.op).kind = "pop"
    /\ Len(Val(heap.op).before) = 5
    /\ Val(heap.op).before[3][1] < Val(heap.op).before[2][1]
    /\ heap.pops >= 1


\* ------------------------------------------------------------------------
\* C26: the chunked rendering of the barriers
\* ------------------------------------------------------------------------

\* the frames of the latest renderBarriers call have all run, superseded
\* ones included
AllFramesRun == render.invoked # Null /\ render.frames = {}

\* C26 as stated: a renderBarriers call that was superseded while it had a
\* chunk pending adds no marker afterwards, and once every requested frame
\* has run the barriers layer holds exactly the markers of the latest call
\* and the visible-count statistic shows how many they are
C26_LatestRenderShown ==
    /\ ~render.late
    /\ AllFramesRun =>
          /\ render.barriersLayer = Range(Val(render.invoked))
          /\ render.statVisible = Some(Len(Val(render.invoked)))

\* C26 amended: a renderBarriers call that was superseded while it had a
\* chunk pending adds no marker afterwards, and once every requested frame
\* has run the barriers layer holds exactly the markers of the latest call;
\* the visible-count statistic shows how many they are unless applyFilters
\* ran with the layer hidden since that call wrote the statistic, and then
\* it shows the count of the latest such applyFilters
C26_LatestRenderShownUnlessHidden ==
    /\ ~render.late
    /\ AllFramesRun =>
          /\ render.barriersLayer = Range(Val(render.invoked))
          /\ render.statVisible =
                IF render.hidden = Null
                THEN Some(Len(Val(render.invoked)))
                ELSE render.hidden

\* a call of more than one chunk superseded an earlier one, the superseded
\* chunk ran and returned, and every frame has run
C26_Witness ==
    /\ AllFramesRun
    /\ render.superseded
    /\ render.dropped
    /\ Len(Val(render.invoked)) > ChunkSize
    /\ render.hidden = Null


\* ------------------------------------------------------------------------
\* C27: the interactive option of the barrier markers
\* ------------------------------------------------------------------------

\* C27: once the barrier markers are built, each marker's
\* options.interactive is (marker visible and overlay interactivity enabled)
C27_InteractiveIffVisibleEnabled ==
    overlay.barriersBuilt =>
        \A k \in DOMAIN overlay.allBarrierMarkers :
            overlay.allBarrierMarkers[k].interactive =
                (overlay.allBarrierMarkers[k].visible /\ overlay.barriersEnabled)

\* ------------------------------------------------------------------------
\* C29: the click mode and the overlays' interactivity
\* ------------------------------------------------------------------------

\* the marker a map click in this mode sets
ModeMarker(o, mode) ==
    IF mode = Some("origin") THEN o.originMarker ELSE o.destinationMarker

OtherMarker(o, mode) ==
    IF mode = Some("origin") THEN o.destinationMarker ELSE o.originMarker

\* what a map click at c.latlng made of c.before, as C29 states it
ClickAsStated(o, c) ==
    IF c.before.clickMode = Null
    THEN [o EXCEPT !.click = Null] = c.before
    ELSE LET mode == c.before.clickMode
             old == ModeMarker(c.before, mode)
             new == ModeMarker(o, mode)
         IN  /\ o.clickMode = Null
             /\ new # Null
             /\ Val(new).latlng = c.latlng
             /\ Val(new) \notin c.before.mapLayers
             /\ o.mapLayers = (c.before.mapLayers \ Range(old)) \cup {Val(new)}
             /\ OtherMarker(o, mode) = OtherMarker(c.before, mode)

\* C29: clickMode is null, 'origin' or 'destination'; the barrier, cluster
\* and priority layers are interactive exactly when clickMode is null; a map
\* click in a non-null mode places that mode's marker for the previous one
\* and sets clickMode to null; a map click in the null mode changes nothing
C29_ClickMode ==
    /\ overlay.clickMode \in ClickModes
    /\ overlay.barriersEnabled = (overlay.clickMode = Null)
    /\ overlay.clustersEnabled = (overlay.clickMode = Null)
    /\ overlay.prioritiesEnabled = (overlay.clickMode = Null)
    /\ overlay.click # Null => ClickAsStated(overlay, Val(overlay.click))

\* a map click in origin mode has replaced an earlier origin marker
C29_Witness ==
    /\ overlay.click # Null
    /\ Val(overlay.click).before.clickMode = Some("origin")
    /\ Val(overlay.click).before.originMarker # Null
    /\ overlay.destinationMarker # Null


\* ------------------------------------------------------------------------
\* C28: the analytics are loaded once
\* ------------------------------------------------------------------------

\* a load is awaiting its fetch or its response.json()
InFlight(a) == a.fetching + a.parsing > 0

\* the loadAnalyticsIfNeeded call recorded in a started a load
StartedLoad(a) == a.loads = Val(a.call).before.loads + 1

\* C28: the analytics are fetched and the charts rendered at most once; a
\* loadAnalyticsIfNeeded call made while a load is in flight or after a load
\* succeeded starts no load; a call after a failed load, with none in flight
\* and none succeeded, starts one
C28_LoadedOnce ==
    /\ analytics.renders <= 1
    /\ analytics.call # Null =>
          LET before == Val(analytics.call).before
          IN  /\ (InFlight(before) \/ before.analyticsLoaded)
                    => ~StartedLoad(analytics)
              /\ (before.container = "error" /\ ~InFlight(before)
                    /\ ~before.analyticsLoaded) => StartedLoad(analytics)

====
